---------------------------- MODULE Spec2Model ----------------------------
(***************************************************************************)
(* Model of sqlsurge's embedded-SQL extraction (sql-extraction/py) and of  *)
(* the virtual-document maintenance done by refresh (vsce/src/extension).  *)
(*                                                                         *)
(* Texts are sequences of one-character strings.  Offsets, lines and       *)
(* columns are zero-based, as in the source; CharAt/Slice do the shift to  *)
(* TLA+'s one-based sequences.                                             *)
(***************************************************************************)
EXTENDS Integers, Sequences, FiniteSets, TLC

(***************************************************************************)
(* JavaScript string primitives                                            *)
(***************************************************************************)
NL == "\n"
DQ == "\""
SQ == "'"
\* the backtick character (the lexer of TLA+ accepts no backtick in a string)
BT == "BACKTICK"
BS == "\\"

UpperSeq == <<"A","B","C","D","E","F","G","H","I","J","K","L","M",
              "N","O","P","Q","R","S","T","U","V","W","X","Y","Z">>
LowerSeq == <<"a","b","c","d","e","f","g","h","i","j","k","l","m",
              "n","o","p","q","r","s","t","u","v","w","x","y","z">>

\* String.prototype.toUpperCase / the regex "i" flag, on one character
UpperChar(c) ==
  IF \E i \in 1..26 : LowerSeq[i] = c
  THEN UpperSeq[CHOOSE i \in 1..26 : LowerSeq[i] = c] ELSE c
LowerChar(c) ==
  IF \E i \in 1..26 : UpperSeq[i] = c
  THEN LowerSeq[CHOOSE i \in 1..26 : UpperSeq[i] = c] ELSE c

ToUpperCase(s) == [i \in 1..Len(s) |-> UpperChar(s[i])]

\* the regex class \s, restricted to the whitespace the texts contain
IsWs(c) == c \in {" ", NL, "\t"}
\* the regex class ["']
IsQuote(c) == c \in {DQ, SQ}
\* the regex class of the three quote characters (double, single, backtick)
IsAnyQuote(c) == c \in {DQ, SQ, BT}

\* s[i] of JavaScript: "" stands for undefined past the end
CharAt(s, i) == IF i >= 0 /\ i < Len(s) THEN s[i + 1] ELSE ""

\* String.prototype.slice(a, b) / substring for 0 <= a
Slice(s, a, b) ==
  LET lo == IF a < 0 THEN 0 ELSE IF a > Len(s) THEN Len(s) ELSE a
      hi == IF b < 0 THEN 0 ELSE IF b > Len(s) THEN Len(s) ELSE b
  IN IF hi <= lo THEN <<>> ELSE SubSeq(s, lo + 1, hi)

\* sub occurs in s at offset i (case-sensitive)
OccursAt(s, sub, i) ==
  /\ i >= 0
  /\ i + Len(sub) <= Len(s)
  /\ \A k \in 1..Len(sub) : s[i + k] = sub[k]

\* sub occurs in s at offset i, ignoring case (regex flag "i")
OccursAtCI(s, sub, i) ==
  /\ i >= 0
  /\ i + Len(sub) <= Len(s)
  /\ \A k \in 1..Len(sub) : LowerChar(s[i + k]) = LowerChar(sub[k])

\* String.prototype.indexOf(sub, from): -1 when absent
RECURSIVE IndexOf(_, _, _)
IndexOf(s, sub, from) ==
  IF from + Len(sub) > Len(s) THEN -1
  ELSE IF OccursAt(s, sub, from) THEN from
  ELSE IndexOf(s, sub, from + 1)

\* String.prototype.includes
Includes(s, sub) == IndexOf(s, sub, 0) # -1

\* first offset >= i that holds no whitespace (the greedy \s*)
RECURSIVE SkipWs(_, _)
SkipWs(s, i) ==
  IF i >= Len(s) \/ ~IsWs(s[i + 1]) THEN i ELSE SkipWs(s, i + 1)

\* last offset < j whose character is no whitespace, plus one
RECURSIVE SkipWsBack(_, _)
SkipWsBack(s, j) ==
  IF j <= 0 \/ ~IsWs(s[j]) THEN j ELSE SkipWsBack(s, j - 1)

\* String.prototype.trim
Trim(s) ==
  LET a == SkipWs(s, 0)
  IN IF a >= Len(s) THEN <<>> ELSE Slice(s, a, SkipWsBack(s, Len(s)))

\* first offset >= i whose character satisfies the class, -1 when none
RECURSIVE FindQuote(_, _)
FindQuote(s, i) ==
  IF i >= Len(s) THEN -1
  ELSE IF IsQuote(s[i + 1]) THEN i ELSE FindQuote(s, i + 1)

RECURSIVE FindAnyQuote(_, _)
FindAnyQuote(s, i) ==
  IF i >= Len(s) THEN -1
  ELSE IF IsAnyQuote(s[i + 1]) THEN i ELSE FindAnyQuote(s, i + 1)

\* String.prototype.split("\n")
RECURSIVE SplitFrom(_, _, _)
SplitFrom(s, i, cur) ==
  IF i > Len(s) THEN <<cur>>
  ELSE IF s[i] = NL THEN <<cur>> \o SplitFrom(s, i + 1, <<>>)
  ELSE SplitFrom(s, i + 1, Append(cur, s[i]))
SplitLines(s) == SplitFrom(s, 1, <<>>)


(***************************************************************************)
(* sql-extraction/py: the literal scanner and the fragment extractor       *)
(***************************************************************************)
\* a function result that is null / a regex that did not match
NoResult == [found |-> FALSE]

Rule(name) == [functionName |-> name, sqlArgNo |-> 1, isStringTemplate |-> FALSE]

\* defaultConfigs of extractSqlFromPython
defaultConfigs ==
  << Rule(<<"e","x","e","c","u","t","e">>),
     Rule(<<"e","x","e","c","u","t","e","m","a","n","y">>),
     Rule(<<"q","u","e","r","y">>),
     Rule(<<"r","a","w">>),
     Rule(<<"t","e","x","t">>) >>

\* sqlKeywords of extractSqlString
sqlKeywords ==
  { <<"S","E","L","E","C","T">>, <<"I","N","S","E","R","T">>,
    <<"U","P","D","A","T","E">>, <<"D","E","L","E","T","E">>,
    <<"C","R","E","A","T","E">>, <<"A","L","T","E","R">>,
    <<"D","R","O","P">>, <<"W","I","T","H">> }

\* name\s*\( at offset i, case-sensitive: the tail of both alternatives of
\* functionPattern
CallAt(s, i, name) ==
  /\ OccursAt(s, name, i)
  /\ CharAt(s, SkipWs(s, i + Len(name))) = "("

\* functionPattern.test(line):  \.name\s*\(  |  ^\s*name\s*\(
functionPattern(line, name) ==
  \/ \E i \in 0..(Len(line) - 1) : line[i + 1] = "." /\ CallAt(line, i + 1, name)
  \/ CallAt(line, SkipWs(line, 0), name)

\* The scanner's state before the first character of a call.
ScanInit == [parenthesesCount |-> 0, inString |-> FALSE, stringChar |-> "",
             foundFunction |-> FALSE]

\* extractSqlFromLine, the body of the loop over the characters of a line
ScanChar(st, line, i) ==
  LET char == CharAt(line, i)
      prevChar == IF i > 0 THEN CharAt(line, i - 1) ELSE ""
  IN IF ~st.inString
     THEN IF char = DQ \/ char = SQ \/ (char = BT /\ ~st.foundFunction)
          THEN [st EXCEPT !.inString = TRUE, !.stringChar = char]
          ELSE IF char = "("
          THEN [st EXCEPT !.parenthesesCount = @ + 1, !.foundFunction = TRUE]
          ELSE IF char = ")"
          THEN [st EXCEPT !.parenthesesCount = @ - 1]
          ELSE st
     ELSE IF char = st.stringChar /\ prevChar # BS
          THEN IF /\ (st.stringChar = DQ \/ st.stringChar = SQ)
                  /\ i >= 2
                  /\ Slice(line, i - 2, i + 1)
                       = <<st.stringChar, st.stringChar, st.stringChar>>
               THEN st   \* "continue": taken for a triple quote
               ELSE [st EXCEPT !.inString = FALSE, !.stringChar = ""]
          ELSE st

RECURSIVE ScanLine(_, _, _)
ScanLine(st, line, i) ==
  IF i >= Len(line) THEN st ELSE ScanLine(ScanChar(st, line, i), line, i + 1)

\* extractSqlFromLine, the loop that collects the call: the text collected,
\* the offset in it of each line, and the scanner's state when it stopped
RECURSIVE CollectCall(_, _, _, _, _)
CollectCall(lines, currentLine, st, fullLine, lineOffsets) ==
  IF currentLine >= Len(lines)
  THEN [fullLine |-> fullLine, lineOffsets |-> lineOffsets, st |-> st,
        closed |-> FALSE]
  ELSE LET line == lines[currentLine + 1]
           full2 == fullLine \o line
           st2 == ScanLine(st, line, 0)
       IN IF st2.foundFunction /\ st2.parenthesesCount = 0
          THEN [fullLine |-> full2, lineOffsets |-> lineOffsets, st |-> st2,
                closed |-> TRUE]
          ELSE IF currentLine + 1 < Len(lines)
          THEN CollectCall(lines, currentLine + 1, st2, Append(full2, NL),
                           Append(lineOffsets, Len(full2) + 1))
          ELSE [fullLine |-> full2, lineOffsets |-> lineOffsets, st |-> st2,
                closed |-> FALSE]

\* a conversion that finds the line and keeps the offset as the column
OffsetAsColumn(charOffset, lineOffsets, baseLineIndex) ==
  LET n == Len(lineOffsets)
      hits == {i \in 0..(n - 2) :
                 charOffset >= lineOffsets[i + 1] /\ charOffset < lineOffsets[i + 2]}
      first == IF hits = {} THEN 0
               ELSE CHOOSE i \in hits : \A j \in hits : i <= j
      lineIndex == IF charOffset >= lineOffsets[n] THEN n - 1 ELSE first
  IN [line |-> baseLineIndex + lineIndex, character |-> charOffset]

\* convertPositionToLineChar
convertPositionToLineChar(charOffset, lineOffsets, baseLineIndex) ==
  LET n == Len(lineOffsets)
      hits == {i \in 0..(n - 2) :
                 charOffset >= lineOffsets[i + 1] /\ charOffset < lineOffsets[i + 2]}
      first == IF hits = {} THEN 0
               ELSE CHOOSE i \in hits : \A j \in hits : i <= j
      lineIndex == IF charOffset >= lineOffsets[n] THEN n - 1 ELSE first
  IN [line |-> baseLineIndex + lineIndex,
      character |-> charOffset - lineOffsets[lineIndex + 1]]

\* One attempt, at offset i, of the pattern  name \s* ( \s* pre Q group Q
\* (flag "i"), Q a double or single quote and group the shortest run of
\* non-quote characters.  pre is empty (pattern 1: single-line string),
\* r (pattern 3: raw string) or f (pattern 4: f-string).
QuotedAt(fc, name, pre, i) ==
  LET b == SkipWs(fc, i + Len(name))
      c == SkipWs(fc, b + 1)
      q == c + Len(pre)
      d == FindQuote(fc, q + 1)
  IN IF /\ OccursAtCI(fc, name, i)
        /\ CharAt(fc, b) = "("
        /\ OccursAtCI(fc, pre, c)
        /\ IsQuote(CharAt(fc, q))
        /\ d # -1
     THEN [found |-> TRUE, whole |-> Slice(fc, i, d + 1),
           group |-> Slice(fc, q + 1, d)]
     ELSE NoResult

\* One attempt, at offset i, of pattern 2:  name \s* ( \s* TQ group TQ, TQ
\* three double quotes or three single quotes and group the shortest text
\* up to the same three quotes.
TripleAt(fc, name, i) ==
  LET b == SkipWs(fc, i + Len(name))
      c == SkipWs(fc, b + 1)
      tq == IF OccursAt(fc, <<DQ, DQ, DQ>>, c) THEN <<DQ, DQ, DQ>>
            ELSE IF OccursAt(fc, <<SQ, SQ, SQ>>, c) THEN <<SQ, SQ, SQ>>
            ELSE <<>>
      d == IF tq = <<>> THEN -1 ELSE IndexOf(fc, tq, c + 3)
  IN IF /\ OccursAtCI(fc, name, i)
        /\ CharAt(fc, b) = "("
        /\ d # -1
     THEN [found |-> TRUE, whole |-> Slice(fc, i, d + 3),
           group |-> Slice(fc, c + 3, d)]
     ELSE NoResult

\* kind 1: single-line string, 2: triple-quoted, 3: raw string, 4: f-string
PatternAt(fc, name, kind, i) ==
  IF kind = 2 THEN TripleAt(fc, name, i)
  ELSE QuotedAt(fc, name,
                IF kind = 3 THEN <<"r">> ELSE IF kind = 4 THEN <<"f">> ELSE <<>>,
                i)

\* the first of two results that is one
OrElse(m, alt) == IF m.found THEN m ELSE alt

\* functionCall.match(pattern): the leftmost match
RECURSIVE PatternMatch(_, _, _, _)
PatternMatch(fc, name, kind, i) ==
  IF i >= Len(fc) THEN NoResult
  ELSE OrElse(PatternAt(fc, name, kind, i), PatternMatch(fc, name, kind, i + 1))

\* extractSqlString, the return inside the loop over the patterns
LocatedAt(sqlContent, contentStart) ==
  [found |-> TRUE, content |-> Trim(sqlContent), start |-> contentStart,
   end |-> contentStart + Len(sqlContent)]

\* extractSqlString, the body of the loop over the patterns, for the match m:
\* sqlContent is match[1] || match[2] || match[3], an empty group being falsy
ContentOf(functionCall, m) ==
  IF m.found /\ m.group # <<>> /\ Trim(m.group) # <<>>
  THEN LocatedAt(m.group,
                 \* contentStart = functionCall.indexOf(sqlContent, matchStart)
                 IndexOf(functionCall, m.group,
                         IndexOf(functionCall, m.whole, 0)))
  ELSE NoResult

\* extractSqlString, the loop over the patterns
RECURSIVE TryPatterns(_, _, _)
TryPatterns(functionCall, name, kind) ==
  IF kind > 4 THEN NoResult
  ELSE OrElse(ContentOf(functionCall, PatternMatch(functionCall, name, kind, 0)),
              TryPatterns(functionCall, name, kind + 1))

\* sqlKeywords.some((keyword) => upperContent.includes(keyword))
HasSqlKeyword(content) ==
  \E keyword \in sqlKeywords : Includes(ToUpperCase(content), keyword)

\* extractSqlString, the return inside the fallback loop
KeywordHit(content, startPos) ==
  [found |-> TRUE, content |-> Trim(content), start |-> startPos,
   end |-> startPos + Len(content)]

\* extractSqlString, the fallback: the quoted substrings of the call from
\* offset p on (any of the three quote characters on either side), left to
\* right and without overlap, as the global match returns them; a and b are
\* the offsets of the quotes of the first one
RECURSIVE Fallback(_, _)
FallbackAt(functionCall, a, b) ==
  IF a = -1 \/ b = -1 THEN NoResult
  ELSE IF HasSqlKeyword(Slice(functionCall, a + 1, b))
  THEN KeywordHit(Slice(functionCall, a + 1, b),
                  \* functionCall.indexOf(stringMatch) + 1
                  IndexOf(functionCall, Slice(functionCall, a, b + 1), 0) + 1)
  ELSE Fallback(functionCall, b + 1)
NextQuote(functionCall, a) ==
  IF a = -1 THEN -1 ELSE FindAnyQuote(functionCall, a + 1)
FallbackFrom(functionCall, a) == FallbackAt(functionCall, a, NextQuote(functionCall, a))
Fallback(functionCall, p) == FallbackFrom(functionCall, FindAnyQuote(functionCall, p))

extractSqlString(functionCall, config) ==
  OrElse(TryPatterns(functionCall, config.functionName, 1),
         Fallback(functionCall, 0))

\* extractSqlFromLine, after the call was collected: a SqlNode, or NoResult
\* for null
NodeOfString(sqlString, lineOffsets, startLineIndex) ==
  IF sqlString.found
  THEN [found |-> TRUE,
        code_range |->
          [start |-> convertPositionToLineChar(sqlString.start, lineOffsets,
                                               startLineIndex),
           end |-> convertPositionToLineChar(sqlString.end, lineOffsets,
                                             startLineIndex)],
        content |-> sqlString.content,
        method_line |-> startLineIndex]
  ELSE NoResult

NodeOfCall(call, startLineIndex, config) ==
  NodeOfString(extractSqlString(call.fullLine, config), call.lineOffsets,
               startLineIndex)

extractSqlFromLine(lines, startLineIndex, config) ==
  NodeOfCall(CollectCall(lines, startLineIndex, ScanInit, <<>>, <<0>>),
             startLineIndex, config)

SqlNode(r) == [code_range |-> r.code_range, content |-> r.content,
               method_line |-> r.method_line]

\* if (sqlResult) sqlNodes.push(sqlResult), before the nodes found later
PushNode(sqlResult, rest) ==
  IF sqlResult.found THEN <<SqlNode(sqlResult)>> \o rest ELSE rest

\* extractSqlFromPython: the loops over the lines and, per line, the rules
RECURSIVE ExtractFrom(_, _, _, _)
ExtractFrom(lines, activeConfigs, lineIndex, k) ==
  IF lineIndex >= Len(lines) THEN <<>>
  ELSE IF k > Len(activeConfigs)
  THEN ExtractFrom(lines, activeConfigs, lineIndex + 1, 1)
  ELSE IF functionPattern(Trim(lines[lineIndex + 1]), activeConfigs[k].functionName)
  THEN PushNode(extractSqlFromLine(lines, lineIndex, activeConfigs[k]),
                ExtractFrom(lines, activeConfigs, lineIndex, k + 1))
  ELSE ExtractFrom(lines, activeConfigs, lineIndex, k + 1)

\* an optional rule list: undefined, or the list given
Undefined == [defined |-> FALSE, items |-> <<>>]
Defined(items) == [defined |-> TRUE, items |-> items]

\* configs || defaultConfigs: an empty list given is not replaced
extractSqlFromPython(sourceTxt, configs) ==
  ExtractFrom(SplitLines(sourceTxt),
              IF configs.defined THEN configs.items ELSE defaultConfigs, 0, 1)

\* extractSqlListPy: the rule names of the model are plain words, so building
\* the patterns does not throw and the catch branch is not taken
extractSqlListPy(sourceTxt, configs) == extractSqlFromPython(sourceTxt, configs)

(***************************************************************************)
(* vscode.TextDocument                                                     *)
(***************************************************************************)
RECURSIVE LineStart(_, _)
LineStart(lines, l) ==
  IF l <= 0 THEN 0 ELSE LineStart(lines, l - 1) + Len(lines[l]) + 1

\* document.offsetAt(new vscode.Position(line, character)): the position is
\* first adjusted to the document (validatePosition)
OffsetAt(text, line, character) ==
  LET lines == SplitLines(text)
      n == Len(lines)
  IN IF line >= n THEN Len(text)
     ELSE LET len == Len(lines[line + 1])
          IN LineStart(lines, line) + (IF character > len THEN len ELSE character)

\* a prefix left as it is in the host text
NotBlanked(s) == s

\* replace(/[^\n]/g, " ")
Blank(s) == [i \in 1..Len(s) |-> IF s[i] = NL THEN NL ELSE " "]

(***************************************************************************)
(* The host documents                                                      *)
(***************************************************************************)
TextPlain == <<"x","=","1">>
TextUsers == <<"c","u","r","s","o","r",".","e","x","e","c","u","t","e","(",
               "\"","S","E","L","E","C","T"," ","*"," ","F","R","O","M"," ",
               "u","s","e","r","s","\"",")">>
TextQueryS == <<"c",".","q","u","e","r","y","(","\"","S","\"",")">>
TextTwo == <<"c",".","q","u","e","r","y","(","\"","S","\"",")","\n",
             "c",".","r","a","w","(","\"","T","\"",")">>
TextBlock == <<"c",".","r","a","w","(","\"","\"","\"","\n","S","S","\n",
               "\"","\"","\"",")">>
TextIndented == <<"c",".","r","a","w","(","\"","\"","\"","\n"," "," ","S","S","\n",
                  "\"","\"","\"",")">>
TextRun == <<"c",".","r","u","n","(","\"","S","\"",")","\n",
             "c",".","q","u","e","r","y","(","\"","T","\"",")">>
TextLower == <<"c",".","q","u","e","r","y","(","\"","s","\"",")">>
TextInner == <<" "," ","c",".","q","u","e","r","y","(","\"","s","\"",")">>
TextNested == <<" "," ","c",".","r","a","w","(","\"","\"","\"","\n",
                " "," ","a","\n"," "," ","b","\n","\"","\"","\"",")">>
TextLines == <<"c",".","r","a","w","(","\"","\"","\"","a","\n","b","\"","\"","\"",")">>
TextQuoted == <<"c",".","r","a","w","(","\"","\"","\"","'","S","'","\"","\"","\"",")">>
TextQueryD == <<"d",".","q","u","e","r","y","(","\"","S","\"",")">>
TextTwoD == <<"d",".","q","u","e","r","y","(","\"","Q","\"",")","\n",
              "d",".","r","a","w","(","\"","T","\"",")">>
TextOther == <<"d",".","t","e","x","t","(","\"","U","\"",")">>
TextTs == <<"s","q","l",BT,"S",BT>>

\* The documents of the workspace, and the texts the user gives each.
Files == {"a.py", "b.py", "n.ts"}
LanguageId(f) == IF f = "n.ts" THEN "typescript" ELSE "python"
HostTexts(f) ==
  IF f = "a.py"
  THEN {TextPlain, TextUsers, TextQueryS, TextTwo, TextBlock}
  ELSE IF f = "b.py" THEN {TextOther}
  ELSE {TextTs}
InitialText(f) ==
  IF f = "a.py" THEN TextPlain ELSE IF f = "b.py" THEN TextOther ELSE TextTs

\* refresh is called at most MaxCalls times in a behaviour
MaxCalls == 3

VARIABLES
  docText,          \* file -> the live text of the document
  virtualContents,  \* activate: Map fileName -> the virtual file names stored
  snapshots,        \* the language service's store: virtual file name -> text
  microtasks,       \* the refresh calls suspended at their await, oldest first
  returned,         \* what the refresh that finished last returned
  nCalls,           \* how many times refresh was called
  lastCall,         \* history: file -> the latest call of refresh on it
  landed,           \* history: file -> the latest refresh that finished on it,
                    \*   with what the one before it on the file had read
  program,          \* the statements of the host text given to the extractor
  extracted         \* what the extractor returned for it

VARIABLES
  shown,            \* the notification shown last ("" before any)
  visible,          \* whether a.py is the document of a visible editor
  sessions,         \* the detached-edit sessions opened, in the order opened
  triggers,         \* the save and close listeners registered, [kind, session]
  tempSqlFiles,     \* globalState "tempSqlFiles": temp uri -> sqlNodeInfo
  buffers,          \* temp uri -> the untitled document opened under it
  clock,            \* Date.now()
  syncTasks,        \* the syncBackToOriginal calls suspended at their first
                    \*   await, oldest first
  nSaves,           \* how many save events the host delivered
  lastSync          \* history: the syncBackToOriginal that finished last

\* the state of the detached-edit sessions
editVars == <<visible, sessions, triggers, tempSqlFiles, buffers, clock,
              syncTasks, nSaves, lastSync>>

VARIABLES
  settings,         \* workspace configuration "sqlsurge": key -> the value set
  lastConfig,       \* history: the getWorkspaceConfig call made last on its own
  reports,          \* history: how often the error of customRawSqlQuery was
                    \* logged and shown since that setting was last changed
                    \* (2: twice or more)
  printer,          \* which pretty-printer format() of sql-formatter is
  tabSize,          \* activeTextEditor.options.tabSize
  formatRuns,       \* history: the runs of sqlsurge.formatSql, oldest first
  failed,           \* history: the refresh calls in which something threw
  client,           \* the sqls client: "stopped", "running" or "failed"
  registrations,    \* the providers and commands activate registered
  virtualDocuments, \* activate: Map unique virtual file name -> text
  provided,         \* history: what the provider called last gave
  styleFile,        \* .sql-formatter.json of the workspace folder
  requests          \* the provider calls waiting at executeCommand, and those
                    \* that returned, oldest first

configVars == <<settings, lastConfig, reports>>
formatVars == <<printer, tabSize, formatRuns, styleFile>>
providerVars == <<client, registrations, virtualDocuments, provided, requests>>
moreVars == <<configVars, formatVars, failed, providerVars>>

\* what refresh and the host's edits leave alone
notRefreshVars == <<program, extracted, shown, editVars, moreVars>>

\* what the extractor alone leaves alone
notExtractVars == <<docText, virtualContents, snapshots, microtasks, returned,
                    nCalls, lastCall, landed, program, shown, editVars, moreVars>>

vars == <<docText, virtualContents, snapshots, microtasks, returned, nCalls,
          lastCall, landed, program, extracted, shown, editVars, moreVars>>

(***************************************************************************)
(* vsce/src/extConfig.ts: getWorkspaceConfig                               *)
(***************************************************************************)
\* the entries of extConfigSchemas
ConfigKeys == {"formatOnSave", "formatSql.indent", "customRawSqlQuery"}

\* The values a setting may hold, each with its JavaScript type.  An object
\* names in unknown the entries it holds that no schema names.
Unset == [type |-> "undefined"]
Bool(b) == [type |-> "boolean", val |-> b]
Str(t) == [type |-> "string", val |-> t]
Obj(language, configs, unknown) ==
  [type |-> "object", language |-> language, configs |-> configs, unknown |-> unknown]

\* a rule for calls of run(...), which the default rules do not name
RunRule(sqlArgNo) ==
  [functionName |-> <<"r","u","n">>, sqlArgNo |-> sqlArgNo, isStringTemplate |-> FALSE]

\* what the user may have set under each key
ConfigValues(key) ==
  IF key = "formatOnSave" THEN {Unset, Bool("true"), Str("true")}
  ELSE IF key = "formatSql.indent"
  THEN {Unset, Bool("true"), Bool("false"), Str("false")}
  ELSE {Unset,
        Obj("python", <<RunRule(1)>>, <<>>),
        Obj("python", <<RunRule(1)>>, <<"comment">>),
        Obj("python", <<RunRule(0)>>, <<>>),
        Obj("typescript", <<RunRule(1)>>, <<>>),
        Obj("unknown", <<RunRule(0)>>, <<>>)}

\* v.pipe(v.number(), v.minValue(1)) on sqlArgNo, for each item of configs:
\* the paths of the issues
ItemIssues(configs) ==
  {<<"configs", i, "sqlArgNo">> : i \in {j \in 1..Len(configs) : configs[j].sqlArgNo < 1}}

\* customRawSqlQueryTsSchema, taken to ask of a rule what the python schema asks
TsIssues(configs) == ItemIssues(configs)

\* the issues of v.safeParse(extConfigSchemas.entries[key], config), by path;
\* <<>> is the root
Issues(key, config) ==
  IF key \in {"formatOnSave", "formatSql.indent"}
  THEN IF config.type = "boolean" THEN {} ELSE {<<>>}
  ELSE IF config.type # "object" THEN {<<>>}
  ELSE IF config.language = "python" THEN ItemIssues(config.configs)
  ELSE IF config.language = "typescript" THEN TsIssues(config.configs)
  ELSE {<<>>, <<"language">>}

\* result.output: v.object keeps the entries its schema names and no other
Output(config) ==
  IF config.type = "object"
  THEN Obj(config.language, config.configs, <<>>) ELSE config

\* a parse whose output is the value given, unknown entries and all
LooseParse(key, config) ==
  [success |-> Issues(key, config) = {}, output |-> config,
   issues |-> Issues(key, config)]

\* v.safeParse(extConfigSchemas.entries[key], config)
SafeParse(key, config) ==
  [success |-> Issues(key, config) = {}, output |-> Output(config),
   issues |-> Issues(key, config)]

\* flattenErrors.nested ?? flattenErrors.root
FlatErrors(issues) ==
  IF {path \in issues : path # <<>>} # {}
  THEN {path \in issues : path # <<>>} ELSE issues

InvalidSettings == "sqlsurge: Invalid settings. See output for details."

\* getWorkspaceConfig(extConfigKey): what it returns, whether it logged the
\* error and showed the message, and whether it threw at line 94
ConfigCall(key, result) ==
  [key |-> key, config |-> settings[key],
   returned |-> IF result.success THEN result.output ELSE Unset,
   logged |-> ~result.success /\ FlatErrors(result.issues) # {},
   notified |-> ~result.success /\ FlatErrors(result.issues) # {},
   threw |-> ~result.success /\ FlatErrors(result.issues) = {}]

getWorkspaceConfig(key) == ConfigCall(key, SafeParse(key, settings[key]))

\* the notification shown last, after getWorkspaceConfig(key)
Notified(key, before) ==
  IF getWorkspaceConfig(key).notified THEN InvalidSettings ELSE before

\* the reports made so far, after getWorkspaceConfig("customRawSqlQuery")
Reported(before) ==
  IF getWorkspaceConfig("customRawSqlQuery").logged
  THEN (IF before < 2 THEN before + 1 ELSE 2) ELSE before

\* config?.configs of a refresh that takes the rules of any family
AnyFamilyRules(languageId, config) ==
  IF config.type = "object" THEN Defined(config.configs) ELSE Undefined

\* config?.configs of refresh, after
\* if (config?.language !== document.languageId) config = undefined
FamilyRules(languageId, config) ==
  IF config.type = "object" /\ config.language = languageId
  THEN Defined(config.configs) ELSE Undefined

\* the rules refresh gives the extractor for the document f
RulesFor(f) ==
  FamilyRules(LanguageId(f), getWorkspaceConfig("customRawSqlQuery").returned)

\* No getWorkspaceConfig call was made on its own yet.
NoConfigCall == [key |-> "", config |-> Unset, returned |-> Unset,
                 logged |-> FALSE, notified |-> FALSE, threw |-> FALSE]

(***************************************************************************)
(* vsce/src/extension.ts: refresh                                          *)
(***************************************************************************)
\* `${fileName}@${index}.sql`
VFileName(fileName, index) == fileName \o "@" \o ToString(index) \o ".sql"

\* service.writeSnapshot / service.deleteSnapshot (languageService)
WriteSnapshot(store, name, text) ==
  [k \in DOMAIN store \cup {name} |-> IF k = name THEN text ELSE store[k]]
DeleteSnapshot(store, name) ==
  [k \in DOMAIN store \ {name} |-> store[k]]

\* virtualContents.get(fileName) ?? []
LastVirtualFileNames(fileName) ==
  IF fileName \in DOMAIN virtualContents THEN virtualContents[fileName] ELSE <<>>

\* prefix + sqlNode.content, the text of a fragment's virtual document:
\* rawContent was read before the await, document is the live text
VirtualText(rawContent, document, sqlNode) ==
  LET offset == OffsetAt(document, sqlNode.code_range.start.line,
                         sqlNode.code_range.start.character)
      prefix == Blank(Slice(rawContent, 0, offset))
  IN prefix \o sqlNode.content

\* sqlNodes.map((sqlNode, index) => ...): the virtual file names, in order
VFileNames(fileName, sqlNodes) ==
  [i \in 1..Len(sqlNodes) |-> VFileName(fileName, i - 1)]

\* that map writing only the virtual files the store does not hold yet
RECURSIVE WriteNewVirtualFiles(_, _, _, _, _, _)
WriteNewVirtualFiles(store, fileName, rawContent, document, sqlNodes, index) ==
  IF index >= Len(sqlNodes) THEN store
  ELSE WriteNewVirtualFiles(
         IF VFileName(fileName, index) \in DOMAIN store THEN store
         ELSE WriteSnapshot(store, VFileName(fileName, index),
                            VirtualText(rawContent, document, sqlNodes[index + 1])),
         fileName, rawContent, document, sqlNodes, index + 1)

\* the writeSnapshot calls of that map, from the fragment at index on
RECURSIVE WriteVirtualFiles(_, _, _, _, _, _)
WriteVirtualFiles(store, fileName, rawContent, document, sqlNodes, index) ==
  IF index >= Len(sqlNodes) THEN store
  ELSE WriteVirtualFiles(
         WriteSnapshot(store, VFileName(fileName, index),
                       VirtualText(rawContent, document, sqlNodes[index + 1])),
         fileName, rawContent, document, sqlNodes, index + 1)

\* the filter that finds no stored name unused
NoUnusedVirtualFiles(lastVirtualFileNames, vFileNames) == <<>>

\* the filter without its negation: the stored names that are still used
UsedVirtualFiles(lastVirtualFileNames, vFileNames) ==
  SelectSeq(lastVirtualFileNames,
            LAMBDA vFileName : \E i \in 1..Len(vFileNames) : vFileNames[i] = vFileName)

\* lastVirtualFileNames.filter((vFileName) => !vFileNames.includes(vFileName))
UnusedVirtualFiles(lastVirtualFileNames, vFileNames) ==
  SelectSeq(lastVirtualFileNames,
            LAMBDA vFileName : \A i \in 1..Len(vFileNames) : vFileNames[i] # vFileName)

\* no deleteSnapshot call at all
NoDeletes(store, unused, i) == store

\* the deleteSnapshot calls over the unused names
RECURSIVE DeleteVirtualFiles(_, _, _)
DeleteVirtualFiles(store, unused, i) ==
  IF i > Len(unused) THEN store
  ELSE DeleteVirtualFiles(DeleteSnapshot(store, unused[i]), unused, i + 1)

\* sqlNodesWithVirtualDoc
WithVirtualDoc(sqlNodes, vFileNames) ==
  [idx \in 1..Len(sqlNodes) |->
     [code_range |-> sqlNodes[idx].code_range, content |-> sqlNodes[idx].content,
      method_line |-> sqlNodes[idx].method_line,
      vFileName |-> vFileNames[idx], index |-> idx - 1]]

\* an event loop that runs the youngest continuation first
LastContinuation(queue) == Len(queue)

\* The continuation the event loop runs next: promise reactions run in the
\* order in which their awaits were reached.
NextContinuation(queue) == 1

NoCall == [id |-> 0, rawContent |-> <<>>, sqlNodes |-> <<>>, overlapped |-> FALSE,
           config |-> Unset]
NoLanding == [id |-> 0, rawContent |-> <<>>, document |-> <<>>, sqlNodes |-> <<>>,
              result |-> <<>>, lastVirtualFileNames |-> <<>>,
              lastRawContent |-> <<>>, lastSqlNodes |-> <<>>]
NothingReturned == [id |-> 0, fileName |-> "", sqlNodes |-> <<>>]

Pending(f) == {i \in 1..Len(microtasks) : microtasks[i].fileName = f}

\* refresh(document) on a python document, up to its await: lines 112-124.
\* The rules are those of getWorkspaceConfig("customRawSqlQuery") when they
\* are of the document's family, the default rules otherwise.
Suspend(f, id, rawContent, sqlNodes) ==
  /\ microtasks' = Append(microtasks,
                          [id |-> id, fileName |-> f, rawContent |-> rawContent,
                           sqlNodes |-> sqlNodes])
  /\ lastCall' = [lastCall EXCEPT ![f] =
                    [id |-> id, rawContent |-> rawContent, sqlNodes |-> sqlNodes,
                     overlapped |-> Pending(f) # {},
                     config |-> settings["customRawSqlQuery"]]]
  /\ UNCHANGED returned

\* refresh(document), to its await or to the return of the default branch
RefreshCall(f) ==
  /\ nCalls < MaxCalls
  /\ nCalls' = nCalls + 1
  /\ IF LanguageId(f) = "python"
     THEN Suspend(f, nCalls + 1, docText[f], extractSqlListPy(docText[f], RulesFor(f)))
     ELSE /\ returned' = [id |-> nCalls + 1, fileName |-> f, sqlNodes |-> <<>>]
          /\ UNCHANGED <<microtasks, lastCall>>
  /\ shown' = Notified("customRawSqlQuery", shown)
  /\ reports' = Reported(reports)
  /\ UNCHANGED <<docText, virtualContents, snapshots, landed, program, extracted,
                 editVars, settings, lastConfig, formatVars, failed, providerVars>>

\* refresh(document), from its await to its return (lines 125-169), for the
\* suspended call at place n of the queue
Land(n, task, lastVirtualFileNames, vFileNames, result) ==
  /\ snapshots' =
       DeleteVirtualFiles(
         WriteVirtualFiles(snapshots, task.fileName, task.rawContent,
                           docText[task.fileName], task.sqlNodes, 0),
         UnusedVirtualFiles(lastVirtualFileNames, vFileNames), 1)
  /\ virtualContents' =
       [g \in DOMAIN virtualContents \cup {task.fileName} |->
          IF g = task.fileName THEN vFileNames ELSE virtualContents[g]]
  /\ returned' = [id |-> task.id, fileName |-> task.fileName, sqlNodes |-> result]
  /\ microtasks' = [i \in 1..(Len(microtasks) - 1) |->
                      IF i < n THEN microtasks[i] ELSE microtasks[i + 1]]
  /\ landed' = [landed EXCEPT ![task.fileName] =
                  [id |-> task.id, rawContent |-> task.rawContent,
                   document |-> docText[task.fileName],
                   sqlNodes |-> task.sqlNodes, result |-> result,
                   lastVirtualFileNames |-> lastVirtualFileNames,
                   lastRawContent |-> landed[task.fileName].rawContent,
                   lastSqlNodes |-> landed[task.fileName].sqlNodes]]

Resume(n, task, vFileNames) ==
  Land(n, task, LastVirtualFileNames(task.fileName), vFileNames,
       WithVirtualDoc(task.sqlNodes, vFileNames))

RefreshResume ==
  /\ microtasks # <<>>
  /\ Resume(NextContinuation(microtasks),
            microtasks[NextContinuation(microtasks)],
            VFileNames(microtasks[NextContinuation(microtasks)].fileName,
                       microtasks[NextContinuation(microtasks)].sqlNodes))
  /\ UNCHANGED <<docText, nCalls, lastCall, notRefreshVars>>

\* The user edits a host document.
EditDocument(f) ==
  /\ \E t \in HostTexts(f) \ {docText[f]} : docText' = [docText EXCEPT ![f] = t]
  /\ UNCHANGED <<virtualContents, snapshots, microtasks, returned, nCalls,
                 lastCall, landed, notRefreshVars>>

\* The user edits f between two calls, to a short text: one fragment, two, or none.
EditHost(f) ==
  /\ \E t \in {TextQueryS, TextTwo, TextPlain} \ {docText[f]} :
       docText' = [docText EXCEPT ![f] = t]
  /\ UNCHANGED <<virtualContents, snapshots, microtasks, returned, nCalls,
                 lastCall, landed, notRefreshVars>>

\* The extractor was not run yet.
NotExtracted == [done |-> FALSE, sqlNodes |-> <<>>]

\* No syncBackToOriginal has finished yet.
NoSync == [session |-> 0, wrote |-> FALSE, afterClose |-> FALSE,
           before |-> <<>>, after |-> <<>>, buffer |-> <<>>]

\* The extension is activated with no setting made, and no command other
\* than those of the specification at hand is used.
Activated ==
  /\ settings = [key \in ConfigKeys |-> Unset]
  /\ lastConfig = NoConfigCall
  /\ reports = 0
  /\ printer = "layout"
  /\ tabSize = 2
  /\ formatRuns = <<>>
  /\ failed = {}
  /\ client = "running"
  /\ registrations = {"completion", "hover", "linkedEditing", "editSqlInTempFile"}
  /\ virtualDocuments = <<>>
  /\ provided = [provider |-> "", outcome |-> ""]
  /\ styleFile = "missing"
  /\ requests = <<>>

\* No detached-edit session was opened yet; a.py is shown in an editor.
NoSessions ==
  /\ visible = TRUE
  /\ sessions = <<>>
  /\ triggers = {}
  /\ tempSqlFiles = <<>>
  /\ buffers = <<>>
  /\ clock = 0
  /\ syncTasks = <<>>
  /\ nSaves = 0
  /\ lastSync = NoSync

Init ==
  /\ docText = [f \in Files |-> InitialText(f)]
  /\ virtualContents = <<>>
  /\ snapshots = <<>>
  /\ microtasks = <<>>
  /\ returned = NothingReturned
  /\ nCalls = 0
  /\ lastCall = [f \in Files |-> NoCall]
  /\ landed = [f \in Files |-> NoLanding]
  /\ program = <<>>
  /\ extracted = NotExtracted
  /\ shown = ""
  /\ NoSessions
  /\ Activated

Next ==
  \/ \E f \in Files : RefreshCall(f)
  \/ RefreshResume
  \/ \E f \in Files : EditDocument(f)

Spec == Init /\ [][Next]_vars

(***************************************************************************)
(* The extractor alone, on host texts built of statements                  *)
(***************************************************************************)
\* The statements a host text is built of.
\*   call1     c.raw("S")             a call of one line
\*   call2     d.text("T")            a call of one line, of another rule
\*   block     c.raw(""" / SS / """)  a triple-quoted block over three lines
\*   blockCall the same block, its middle line being  text('a')
\*   plain     x=1                    no call
\*   openParen c.raw("S"              the call's parenthesis is never closed
\*   openStr   c.raw("S               the string literal is never closed
\*   blockQuote c.raw(""" / a"b / """) a block with a lone quote in its middle line
\*   escaped   c.raw("a\"b")          a literal with a quote after a backslash
\*   second    c.raw(x,"DROP")        a call whose second argument is a literal
Shapes == {"call1", "call2", "block", "blockCall", "plain", "openParen", "openStr",
           "blockQuote", "escaped", "second"}

ShapeText(shape) ==
  CASE shape = "call1" -> <<"c",".","r","a","w","(",DQ,"S",DQ,")">>
    [] shape = "call2" -> <<"d",".","t","e","x","t","(",DQ,"T",DQ,")">>
    [] shape = "block" -> <<"c",".","r","a","w","(",DQ,DQ,DQ,NL,"S","S",NL,DQ,DQ,DQ,")">>
    [] shape = "blockCall" -> <<"c",".","r","a","w","(",DQ,DQ,DQ,NL,
                                "t","e","x","t","(",SQ,"a",SQ,")",NL,DQ,DQ,DQ,")">>
    [] shape = "plain" -> <<"x","=","1">>
    [] shape = "openParen" -> <<"c",".","r","a","w","(",DQ,"S",DQ>>
    [] shape = "openStr" -> <<"c",".","r","a","w","(",DQ,"S">>
    [] shape = "blockQuote" -> <<"c",".","r","a","w","(",DQ,DQ,DQ,NL,
                                 "a",DQ,"b",NL,DQ,DQ,DQ,")">>
    [] shape = "escaped" -> <<"c",".","r","a","w","(",DQ,"a",BS,DQ,"b",DQ,")">>
    [] shape = "second" -> <<"c",".","r","a","w","(","x",",",DQ,"D","R","O","P",DQ,")">>

\* What stands between a statement and the one before it: a line break, or a
\* semicolon on the same line.
Separators == {"newline", "semicolon"}
SeparatorText(sep) == IF sep = "newline" THEN <<NL>> ELSE <<";", " ">>

\* A host text has at most MaxStatements statements.
MaxStatements == 2

\* The host text of a program, a sequence of [shape, sep]: sep is what stands
\* before the statement, and is not written before the first one.
RECURSIVE ProgramText(_)
ProgramText(prog) ==
  IF prog = <<>> THEN <<>>
  ELSE IF Len(prog) = 1 THEN ShapeText(prog[1].shape)
  ELSE ProgramText(SubSeq(prog, 1, Len(prog) - 1))
         \o SeparatorText(prog[Len(prog)].sep) \o ShapeText(prog[Len(prog)].shape)

Programs ==
  UNION {[1..n -> [shape : Shapes, sep : Separators]] : n \in 1..MaxStatements}

\* extractSqlListPy(sourceTxt) with the default rules
Extract ==
  /\ ~extracted.done
  /\ extracted' = [done |-> TRUE,
                   sqlNodes |-> extractSqlListPy(ProgramText(program), Undefined)]
  /\ UNCHANGED notExtractVars

InitExtract ==
  /\ program \in {prog \in Programs : prog[1].sep = "newline"}
  /\ extracted = NotExtracted
  /\ docText = [f \in Files |-> InitialText(f)]
  /\ virtualContents = <<>>
  /\ snapshots = <<>>
  /\ microtasks = <<>>
  /\ returned = NothingReturned
  /\ nCalls = 0
  /\ lastCall = [f \in Files |-> NoCall]
  /\ landed = [f \in Files |-> NoLanding]
  /\ shown = ""
  /\ NoSessions
  /\ Activated

NextExtract == Extract

SpecExtract == InitExtract /\ [][NextExtract]_vars

(***************************************************************************)
(* vsce/src/commands/tempFileEditor.ts: the detached-edit session          *)
(***************************************************************************)
\* at most MaxSessions sessions are opened, and MaxSaves save events delivered
MaxSessions == 2
MaxSaves == 2

\* what the user may type into a detached buffer
BufferTexts == { <<"T">>, <<"T", NL, "V">> }

Pos(l, c) == [line |-> l, character |-> c]

\* editor.selection: a cursor (start = end) or a selected range
Selections ==
  { [start |-> Pos(0, 0), end |-> Pos(0, 0)],
    [start |-> Pos(1, 1), end |-> Pos(1, 1)],
    [start |-> Pos(0, 9), end |-> Pos(0, 10)],
    [start |-> Pos(3, 0), end |-> Pos(3, 2)] }

\* the test of sqlNodes.find for a cursor
AtCursor(sqlNode, position) ==
  LET start == sqlNode.code_range.start
      end == sqlNode.code_range.end
  IN \/ (start.line < position.line /\ position.line < end.line)
     \/ (start.line = position.line /\ start.character <= position.character)
     \/ (end.line = position.line /\ position.character <= end.character)

PosLE(p, q) == p.line < q.line \/ (p.line = q.line /\ p.character <= q.character)

\* nodeRange.intersection(selection) !== undefined
Intersects(sqlNode, selection) ==
  /\ PosLE(selection.start, sqlNode.code_range.end)
  /\ PosLE(sqlNode.code_range.start, selection.end)

\* sqlNodes.find(...): the index of the first matching node, 0 for undefined
TargetSqlNode(sqlNodes, selection) ==
  LET hits == {i \in 1..Len(sqlNodes) :
                 IF selection.start = selection.end
                 THEN AtCursor(sqlNodes[i], selection.start)
                 ELSE Intersects(sqlNodes[i], selection)}
  IN IF hits = {} THEN 0 ELSE CHOOSE i \in hits : \A j \in hits : i <= j

\* `untitled:temp_sql_${Date.now()}.sql`
TempUri(now) == "untitled:temp_sql_" \o ToString(now) \o ".sql"

\* refresh(document) as the command awaits it: the store afterwards
RefreshedSnapshots(fileName, rawContent, sqlNodes) ==
  DeleteVirtualFiles(
    WriteVirtualFiles(snapshots, fileName, rawContent, rawContent, sqlNodes, 0),
    UnusedVirtualFiles(LastVirtualFileNames(fileName), VFileNames(fileName, sqlNodes)),
    1)

RefreshedContents(fileName, sqlNodes) ==
  [g \in DOMAIN virtualContents \cup {fileName} |->
     IF g = fileName THEN VFileNames(fileName, sqlNodes) ELSE virtualContents[g]]

\* the untitled document after openTextDocument and the insert at (0, 0)
SeededBuffer(uri, content) ==
  [text |-> IF uri \in DOMAIN buffers /\ buffers[uri].open
            THEN Trim(content) \o buffers[uri].text ELSE Trim(content),
   open |-> TRUE]

\* editSqlInTempFile from line 66 on: the session for the node found
OpenSession(f, sqlNode, now) ==
  /\ clock' = now
  /\ buffers' = [u \in DOMAIN buffers \cup {TempUri(now)} |->
                   IF u = TempUri(now) THEN SeededBuffer(u, sqlNode.content)
                   ELSE buffers[u]]
  /\ sessions' = Append(sessions,
                        [tempUri |-> TempUri(now), originalUri |-> f,
                         sqlNode |-> sqlNode, hostAtOpen |-> docText[f],
                         closed |-> FALSE, saves |-> 0, lateSaves |-> 0,
                         skipped |-> 0])
  /\ tempSqlFiles' = [u \in DOMAIN tempSqlFiles \cup {TempUri(now)} |->
                        IF u = TempUri(now)
                        THEN [originalUri |-> f, sqlNode |-> sqlNode, tempUri |-> u]
                        ELSE tempSqlFiles[u]]
  /\ triggers' = triggers \cup {[kind |-> "save", session |-> Len(sessions) + 1],
                                [kind |-> "close", session |-> Len(sessions) + 1]}
  /\ shown' = "SQL opened in temporary file. Save to sync changes back to original file."

\* editSqlInTempFile from its refresh on, for the nodes refresh returned
EditFound(f, sqlNodes, target) ==
  /\ snapshots' = RefreshedSnapshots(f, docText[f], sqlNodes)
  /\ virtualContents' = RefreshedContents(f, sqlNodes)
  /\ returned' = [id |-> 0, fileName |-> f,
                  sqlNodes |-> WithVirtualDoc(sqlNodes, VFileNames(f, sqlNodes))]
  /\ IF target = 0
     THEN /\ shown' = "No SQL code found at cursor position or in selection"
          /\ UNCHANGED <<clock, buffers, sessions, tempSqlFiles, triggers>>
     ELSE \E now \in {clock, clock + 1} :
            OpenSession(f, returned'.sqlNodes[target], now)

\* The command sqlsurge.editSqlInTempFile.  activeEditor is the document of
\* the active editor, "" for none.  isEnabled is what
\* getWorkspaceConfig("enableTempFileEdit") gave: the schema of that key is
\* not among extConfigSchemas as src/ has it, so either outcome is taken.
EditSqlInTempFile(activeEditor, selection, isEnabled) ==
  /\ Len(sessions) < MaxSessions
  /\ IF activeEditor = ""
     THEN /\ shown' = "No active editor found"
          /\ UNCHANGED <<snapshots, virtualContents, returned, clock, buffers,
                         sessions, tempSqlFiles, triggers>>
     ELSE IF ~isEnabled
     THEN /\ shown' = "Temporary file editing is disabled. Enable it in settings."
          /\ UNCHANGED <<snapshots, virtualContents, returned, clock, buffers,
                         sessions, tempSqlFiles, triggers>>
     ELSE EditFound(activeEditor,
                    extractSqlListPy(docText[activeEditor], RulesFor(activeEditor)),
                    TargetSqlNode(extractSqlListPy(docText[activeEditor],
                                                   RulesFor(activeEditor)),
                                  selection))
  /\ reports' = IF activeEditor # "" /\ isEnabled THEN Reported(reports) ELSE reports
  /\ UNCHANGED <<docText, microtasks, nCalls, lastCall, landed, program, extracted,
                 settings, lastConfig, formatVars, failed, providerVars,
                 visible, syncTasks, nSaves, lastSync>>

\* originalText.match(/^\s*/)?.[0] || ""
LeadingWhitespace(originalText) == Slice(originalText, 0, SkipWs(originalText, 0))

\* first offset >= i whose character is none of the three quotes
RECURSIVE SkipQuotes(_, _)
SkipQuotes(s, i) ==
  IF i >= Len(s) \/ ~IsAnyQuote(s[i + 1]) THEN i ELSE SkipQuotes(s, i + 1)

\* originalText.match(/^\s*["'`]+/)?.[0] || ""
LeadingQuotes(originalText) ==
  IF SkipQuotes(originalText, SkipWs(originalText, 0)) > SkipWs(originalText, 0)
  THEN Slice(originalText, 0, SkipQuotes(originalText, SkipWs(originalText, 0)))
  ELSE <<>>

\* originalText.match(/["'`]+\s*$/)?.[0] || "": the match that starts first
TrailingQuotes(originalText) ==
  LET starts == {i \in 0..(Len(originalText) - 1) :
                   /\ IsAnyQuote(originalText[i + 1])
                   /\ SkipWs(originalText, SkipQuotes(originalText, i))
                        = Len(originalText)}
  IN IF starts = {} THEN <<>>
     ELSE Slice(originalText, CHOOSE i \in starts : \A j \in starts : i <= j,
                Len(originalText))

\* lines.forEach of the edit callback, from the line at place index on
RECURSIVE JoinLines(_, _, _)
JoinLines(lines, leadingWhitespace, index) ==
  IF index > Len(lines) THEN <<>>
  ELSE (IF index > 1 THEN <<NL>> \o leadingWhitespace ELSE <<>>)
       \o lines[index] \o JoinLines(lines, leadingWhitespace, index + 1)

\* newContent of the edit callback
NewContent(originalText, updatedSqlContent) ==
  LeadingQuotes(originalText)
  \o JoinLines(SplitLines(updatedSqlContent), LeadingWhitespace(originalText), 1)
  \o TrailingQuotes(originalText)

\* the offsets of replaceRange in the document as it is now
RangeStart(document, sqlNode) ==
  OffsetAt(document, sqlNode.code_range.start.line, sqlNode.code_range.start.character)
RangeEnd(document, sqlNode) ==
  OffsetAt(document, sqlNode.code_range.end.line, sqlNode.code_range.end.character)

\* originalDoc.getText(replaceRange)
OriginalText(document, sqlNode) ==
  Slice(document, RangeStart(document, sqlNode), RangeEnd(document, sqlNode))

\* editBuilder.replace(replaceRange, newContent) applied to the document
Replaced(document, sqlNode, newContent) ==
  Slice(document, 0, RangeStart(document, sqlNode))
  \o newContent
  \o Slice(document, RangeEnd(document, sqlNode), Len(document))

\* an editor lookup that finds the original file whether it is shown or not
AnyEditor(originalUri) == TRUE

\* editors.find(...) of syncBackToOriginal: the original file has a visible editor
OriginalEditor(originalUri) == visible

\* a save that unregisters the listener it ran
OnceOnly(registered, session) == registered \ {[kind |-> "save", session |-> session]}

\* The save listener returns without disposing anything.
AfterSave(registered, session) == registered

\* a close listener that disposes only itself
ReleasedClose(session) == {[kind |-> "close", session |-> session]}

\* disposable.dispose(); closeDisposable.dispose()
Released(session) ==
  {[kind |-> "save", session |-> session], [kind |-> "close", session |-> session]}

\* the sessions whose listener of that kind is registered and tests true for uri
Listening(kind, uri) ==
  {i \in 1..Len(sessions) :
     [kind |-> kind, session |-> i] \in triggers /\ sessions[i].tempUri = uri}

\* the listeners that ran, in the order registered, each up to its await
RECURSIVE Started(_, _)
Started(listening, i) ==
  IF i > Len(sessions) THEN <<>>
  ELSE (IF i \in listening
        THEN <<[session |-> i, afterClose |-> sessions[i].closed]>> ELSE <<>>)
       \o Started(listening, i + 1)

RECURSIVE AfterSaves(_, _, _)
AfterSaves(registered, listening, i) ==
  IF i > Len(sessions) THEN registered
  ELSE AfterSaves(IF i \in listening THEN AfterSave(registered, i) ELSE registered,
                  listening, i + 1)

\* onDidSaveTextDocument fires for the buffer under uri: every save listener
\* runs up to the await of syncBackToOriginal.
SaveEvent(uri) ==
  /\ nSaves < MaxSaves
  /\ uri \in DOMAIN buffers
  /\ nSaves' = nSaves + 1
  /\ syncTasks' = syncTasks \o Started(Listening("save", uri), 1)
  /\ triggers' = AfterSaves(triggers, Listening("save", uri), 1)
  /\ sessions' = [i \in 1..Len(sessions) |->
                    IF sessions[i].tempUri # uri THEN sessions[i]
                    ELSE IF sessions[i].closed
                    THEN [sessions[i] EXCEPT !.lateSaves = @ + 1]
                    ELSE [sessions[i] EXCEPT !.saves = @ + 1]]
  /\ UNCHANGED <<docText, virtualContents, snapshots, microtasks, returned, nCalls,
                 lastCall, landed, program, extracted, moreVars, shown, visible, tempSqlFiles,
                 buffers, clock, lastSync>>

\* syncBackToOriginal from its await on, for the call suspended longest
SyncBack(task, info, updatedSqlContent) ==
  IF ~OriginalEditor(info.originalUri)
  THEN /\ shown' = "Original file is not open. Please open it to sync changes."
       /\ sessions' = [sessions EXCEPT ![task.session].skipped = @ + 1]
       /\ lastSync' = [session |-> task.session, wrote |-> FALSE,
                       afterClose |-> task.afterClose,
                       before |-> docText[info.originalUri],
                       after |-> docText[info.originalUri],
                       buffer |-> updatedSqlContent]
       /\ UNCHANGED docText
  ELSE /\ docText' = [docText EXCEPT ![info.originalUri] =
                        Replaced(@, info.sqlNode,
                                 NewContent(OriginalText(@, info.sqlNode),
                                            updatedSqlContent))]
       /\ shown' = "SQL changes synced back to original file!"
       /\ lastSync' = [session |-> task.session, wrote |-> TRUE,
                       afterClose |-> task.afterClose,
                       before |-> docText[info.originalUri],
                       after |-> docText'[info.originalUri],
                       buffer |-> updatedSqlContent]
       /\ UNCHANGED sessions

SyncResume ==
  /\ syncTasks # <<>>
  /\ SyncBack(Head(syncTasks), sessions[Head(syncTasks).session],
              buffers[sessions[Head(syncTasks).session].tempUri].text)
  /\ syncTasks' = Tail(syncTasks)
  /\ UNCHANGED <<virtualContents, snapshots, microtasks, returned, nCalls, lastCall,
                 landed, program, extracted, moreVars, visible, triggers, tempSqlFiles,
                 buffers, clock, nSaves>>

RECURSIVE Dispose(_, _, _)
Dispose(registered, listening, i) ==
  IF i > Len(sessions) THEN registered
  ELSE Dispose(IF i \in listening THEN registered \ Released(i) ELSE registered,
               listening, i + 1)

\* onDidCloseTextDocument fires for the buffer under uri: every close listener
\* registered runs.
CloseEvent(uri) ==
  /\ uri \in DOMAIN buffers
  /\ buffers[uri].open
  /\ buffers' = [buffers EXCEPT ![uri].open = FALSE]
  /\ triggers' = Dispose(triggers, Listening("close", uri), 1)
  /\ tempSqlFiles' = IF Listening("close", uri) = {} THEN tempSqlFiles
                     ELSE [u \in DOMAIN tempSqlFiles \ {uri} |-> tempSqlFiles[u]]
  /\ sessions' = [i \in 1..Len(sessions) |->
                    IF sessions[i].tempUri = uri
                    THEN [sessions[i] EXCEPT !.closed = TRUE] ELSE sessions[i]]
  /\ UNCHANGED <<docText, virtualContents, snapshots, microtasks, returned, nCalls,
                 lastCall, landed, program, extracted, moreVars, shown, visible, clock,
                 syncTasks, nSaves, lastSync>>

\* The user types in a detached buffer.
EditBuffer(uri) ==
  /\ uri \in DOMAIN buffers
  /\ buffers[uri].open
  /\ \E t \in BufferTexts \ {buffers[uri].text} :
       buffers' = [buffers EXCEPT ![uri].text = t]
  /\ UNCHANGED <<docText, virtualContents, snapshots, microtasks, returned, nCalls,
                 lastCall, landed, program, extracted, moreVars, shown, visible, sessions,
                 triggers, tempSqlFiles, clock, syncTasks, nSaves, lastSync>>

\* The user hides the editor of a.py, or shows it again.
ToggleVisible ==
  /\ visible' = ~visible
  /\ UNCHANGED <<docText, virtualContents, snapshots, microtasks, returned, nCalls,
                 lastCall, landed, program, extracted, moreVars, shown, sessions, triggers,
                 tempSqlFiles, buffers, clock, syncTasks, nSaves, lastSync>>

\* the temp uris Date.now() can give within the bound
TempUris == {TempUri(now) : now \in 0..MaxSessions}

NextEdit ==
  \/ \E activeEditor \in (IF visible THEN {"a.py"} ELSE {}) \cup {""},
        selection \in Selections, isEnabled \in BOOLEAN :
       EditSqlInTempFile(activeEditor, selection, isEnabled)
  \/ \E uri \in TempUris : EditBuffer(uri)
  \/ \E uri \in TempUris : SaveEvent(uri)
  \/ SyncResume
  \/ \E uri \in TempUris : CloseEvent(uri)
  \/ ToggleVisible

\* a.py holds one of the texts with a fragment when the session starts
InitEdit ==
  /\ docText \in {[f \in Files |-> IF f = "a.py" THEN t ELSE InitialText(f)] :
                    t \in {TextQueryS, TextTwo, TextIndented, TextQuoted}}
  /\ virtualContents = <<>>
  /\ snapshots = <<>>
  /\ microtasks = <<>>
  /\ returned = NothingReturned
  /\ nCalls = 0
  /\ lastCall = [f \in Files |-> NoCall]
  /\ landed = [f \in Files |-> NoLanding]
  /\ program = <<>>
  /\ extracted = NotExtracted
  /\ shown = ""
  /\ NoSessions
  /\ Activated

SpecEdit == InitEdit /\ [][NextEdit]_vars

(***************************************************************************)
(* vsce/src/commands/formatSql.ts: sqlsurge.formatSql                      *)
(***************************************************************************)
\* at most MaxFormats runs of the command in a behaviour
MaxFormats == 2

\* The pretty-printers format() may be.  Both put keywords in upper case and
\* give their own output back unchanged; "layout" lays every line out anew
\* whatever whitespace it had, "keep" leaves the whitespace as it is.
Printers == {"layout", "keep"}

Upper(s) == [i \in 1..Len(s) |-> UpperChar(s[i])]

\* the lines without the whitespace around them, the empty ones left out
RECURSIVE TrimmedLines(_, _)
TrimmedLines(lines, i) ==
  IF i > Len(lines) THEN <<>>
  ELSE (IF Trim(lines[i]) = <<>> THEN <<>> ELSE <<Trim(lines[i])>>)
       \o TrimmedLines(lines, i + 1)

\* lines.join("\n")
RECURSIVE Join(_, _)
Join(lines, i) ==
  IF i > Len(lines) THEN <<>>
  ELSE (IF i > 1 THEN <<NL>> ELSE <<>>) \o lines[i] \o Join(lines, i + 1)

\* format(content, options) of sql-formatter, for the printer p
Format(p, content) ==
  IF p = "keep" THEN Upper(content)
  ELSE Join(TrimmedLines(SplitLines(Upper(content)), 1), 1)

\* What .sql-formatter.json of the workspace folder may be: absent, not
\* readable, not JSON, JSON whose options format() rejects (it throws), or
\* options that ask for lower case.
StyleFiles == {"missing", "unreadable", "malformed", "rejected", "lower"}

\* getSqlFormatterOptions: readFile and JSON.parse are inside a try whose
\* catch returns undefined
getSqlFormatterOptions ==
  IF styleFile \in {"missing", "unreadable", "malformed"} THEN "undefined"
  ELSE styleFile

Lower(s) == [i \in 1..Len(s) |-> LowerChar(s[i])]

\* format(content, sqlFormatterOptions) when it returns
FormatWith(options, p, content) ==
  IF options = "lower" THEN Lower(Format(p, content)) ELSE Format(p, content)

\* format(sqlNode.content, sqlFormatterOptions) of formatSqlNode
Printed(content) == FormatWith(getSqlFormatterOptions, printer, content)

\* format() throws on the options it was given
FormatThrows == getSqlFormatterOptions = "rejected"

\* trailing blanks (/ +$/) removed
RECURSIVE DropBlanks(_)
DropBlanks(s) ==
  IF s # <<>> /\ s[Len(s)] = " " THEN DropBlanks(Slice(s, 0, Len(s) - 1)) ELSE s

\* getPrefixAndSuffix
getPrefixAndSuffix(content) ==
  [prefix |-> DropBlanks(Slice(content, 0, SkipWs(content, 0))),
   suffix |-> Slice(content, SkipWsBack(content, Len(content)), Len(content))]

\* .map((line) => indents + oneLevelDown + line)
Indented(lines, indents, oneLevelDown) ==
  [i \in 1..Len(lines) |-> indents \o oneLevelDown \o lines[i]]

\* indentedContent(content, methodLine): document is that of the active editor
indentedContent(content, methodLine, document) ==
  LET lineText == SplitLines(document)[methodLine + 1]
      indents == Slice(lineText, 0, SkipWs(lineText, 0))
  IN IF lineText = <<>> \/ indents = <<>> THEN content
     ELSE Join(Indented(SplitLines(content), indents, Slice(indents, 0, tabSize)), 1)

\* isEnabledIndent of formatSqlNode, as the if tests it
IsEnabledIndent == getWorkspaceConfig("formatSql.indent").returned = Bool("true")

\* the fragment's content as extracted, not printed
RawContent(sqlNode, document) == sqlNode.content

\* formattedContent of formatSqlNode, python branch
FormattedContent(sqlNode, document) ==
  IF IsEnabledIndent
  THEN indentedContent(Printed(sqlNode.content), sqlNode.method_line, document)
  ELSE Printed(sqlNode.content)

\* prefix + formattedContent + suffix
NodeText(sqlNode, document) ==
  getPrefixAndSuffix(sqlNode.content).prefix
  \o FormattedContent(sqlNode, document)
  \o getPrefixAndSuffix(sqlNode.content).suffix

\* sqlNode.content.match(/^\s*$/)
IsBlank(content) == SkipWs(content, 0) >= Len(content)

\* The edits of editor.edit applied to the text: the ranges are those of the
\* document before the edits, so the last fragment is replaced first.
RECURSIVE ApplyEdits(_, _, _, _)
ApplyEdits(text, document, sqlNodes, i) ==
  IF i < 1 THEN text
  ELSE ApplyEdits(IF IsBlank(sqlNodes[i].content) THEN text
                  ELSE Replaced(text, sqlNodes[i], NodeText(sqlNodes[i], document)),
                  document, sqlNodes, i - 1)

\* the editBuilder.replace calls of a run: the text of each range, and the
\* text put in its place
RECURSIVE Edits(_, _, _)
Edits(document, sqlNodes, i) ==
  IF i > Len(sqlNodes) THEN <<>>
  ELSE (IF IsBlank(sqlNodes[i].content) THEN <<>>
        ELSE <<[old |-> OriginalText(document, sqlNodes[i]),
                new |-> NodeText(sqlNodes[i], document),
                output |-> Printed(sqlNodes[i].content),
                content |-> sqlNodes[i].content,
                methodLine |-> sqlNodes[i].method_line]>>)
       \o Edits(document, sqlNodes, i + 1)

\* what format() gave for each fragment
Outputs(sqlNodes) == [i \in 1..Len(sqlNodes) |-> Printed(sqlNodes[i].content)]

\* formatSql from await refresh on when format() throws inside the callback
\* of editor.edit: the catch of formatSql shows the error, nothing is edited
FormatAborts(f, sqlNodes) ==
  /\ snapshots' = RefreshedSnapshots(f, docText[f], sqlNodes)
  /\ virtualContents' = RefreshedContents(f, sqlNodes)
  /\ returned' = [id |-> 0, fileName |-> f,
                  sqlNodes |-> WithVirtualDoc(sqlNodes, VFileNames(f, sqlNodes))]
  /\ UNCHANGED docText
  /\ formatRuns' = Append(formatRuns,
                          [fileName |-> f, before |-> docText[f],
                           after |-> docText[f], outputs |-> <<>>,
                           edits |-> <<>>, indent |-> IsEnabledIndent,
                           style |-> styleFile, aborted |-> TRUE])
  /\ shown' = "[commandFormatSqlProvider] Error"

\* formatSql on the python document f, from await refresh on
FormatNodes(f, sqlNodes) ==
  /\ snapshots' = RefreshedSnapshots(f, docText[f], sqlNodes)
  /\ virtualContents' = RefreshedContents(f, sqlNodes)
  /\ returned' = [id |-> 0, fileName |-> f,
                  sqlNodes |-> WithVirtualDoc(sqlNodes, VFileNames(f, sqlNodes))]
  /\ docText' = [docText EXCEPT ![f] = ApplyEdits(@, @, sqlNodes, Len(sqlNodes))]
  /\ formatRuns' = Append(formatRuns,
                          [fileName |-> f, before |-> docText[f],
                           after |-> docText'[f], outputs |-> Outputs(sqlNodes),
                           edits |-> Edits(docText[f], sqlNodes, 1),
                           indent |-> IsEnabledIndent,
                           style |-> styleFile, aborted |-> FALSE])
  /\ shown' = IF sqlNodes # <<>> /\ getWorkspaceConfig("formatSql.indent").notified
              THEN InvalidSettings ELSE Notified("customRawSqlQuery", shown)

\* The command sqlsurge.formatSql; activeEditor is the document of the
\* active editor, "" for none.
FormatSql(activeEditor) ==
  /\ Len(formatRuns) < MaxFormats
  /\ IF activeEditor = ""
     THEN UNCHANGED <<snapshots, virtualContents, returned, docText, formatRuns, shown>>
     ELSE IF LanguageId(activeEditor) # "python"
     THEN /\ returned' = [id |-> 0, fileName |-> activeEditor, sqlNodes |-> <<>>]
          /\ formatRuns' = Append(formatRuns,
                                  [fileName |-> activeEditor,
                                   before |-> docText[activeEditor],
                                   after |-> docText[activeEditor],
                                   outputs |-> <<>>, edits |-> <<>>,
                                   indent |-> FALSE,
                                   style |-> styleFile, aborted |-> FALSE])
          /\ shown' = Notified("customRawSqlQuery", shown)
          /\ UNCHANGED <<snapshots, virtualContents, docText>>
     ELSE IF FormatThrows
               /\ extractSqlListPy(docText[activeEditor], RulesFor(activeEditor)) # <<>>
     THEN FormatAborts(activeEditor,
                       extractSqlListPy(docText[activeEditor], RulesFor(activeEditor)))
     ELSE FormatNodes(activeEditor,
                      extractSqlListPy(docText[activeEditor], RulesFor(activeEditor)))
  /\ reports' = IF activeEditor = "" THEN reports ELSE Reported(reports)
  /\ UNCHANGED <<microtasks, nCalls, lastCall, landed, program, extracted, editVars,
                 settings, lastConfig, printer, tabSize, styleFile, failed,
                 providerVars>>

FormatTexts == {TextLower, TextInner, TextTwo, TextIndented, TextNested, TextLines}

\* a.py holds a text with fragments; the printer, the tab size and the
\* setting formatSql.indent are any
InitFormat ==
  /\ docText \in {[f \in Files |-> IF f = "a.py" THEN t ELSE InitialText(f)] :
                    t \in FormatTexts}
  /\ virtualContents = <<>>
  /\ snapshots = <<>>
  /\ microtasks = <<>>
  /\ returned = NothingReturned
  /\ nCalls = 0
  /\ lastCall = [f \in Files |-> NoCall]
  /\ landed = [f \in Files |-> NoLanding]
  /\ program = <<>>
  /\ extracted = NotExtracted
  /\ shown = ""
  /\ NoSessions
  /\ settings \in {[key \in ConfigKeys |->
                      IF key = "formatSql.indent" THEN config ELSE Unset] :
                     config \in ConfigValues("formatSql.indent")}
  /\ lastConfig = NoConfigCall
  /\ reports = 0
  /\ printer \in Printers
  /\ tabSize \in {1, 2, 4}
  /\ formatRuns = <<>>
  /\ failed = {}
  /\ client = "running"
  /\ registrations = {"completion", "hover", "linkedEditing", "editSqlInTempFile"}
  /\ virtualDocuments = <<>>
  /\ provided = [provider |-> "", outcome |-> ""]
  /\ styleFile = "missing"
  /\ requests = <<>>

\* a.py holds a text with a fragment; the style file and the printer are any
InitStyle ==
  /\ docText \in {[f \in Files |-> IF f = "a.py" THEN t ELSE InitialText(f)] :
                    t \in {TextLower, TextNested, TextPlain}}
  /\ virtualContents = <<>>
  /\ snapshots = <<>>
  /\ microtasks = <<>>
  /\ returned = NothingReturned
  /\ nCalls = 0
  /\ lastCall = [f \in Files |-> NoCall]
  /\ landed = [f \in Files |-> NoLanding]
  /\ program = <<>>
  /\ extracted = NotExtracted
  /\ shown = ""
  /\ NoSessions
  /\ settings = [key \in ConfigKeys |-> Unset]
  /\ lastConfig = NoConfigCall
  /\ reports = 0
  /\ printer \in Printers
  /\ tabSize = 2
  /\ formatRuns = <<>>
  /\ styleFile \in StyleFiles
  /\ failed = {}
  /\ client = "running"
  /\ registrations = {"completion", "hover", "linkedEditing", "editSqlInTempFile"}
  /\ virtualDocuments = <<>>
  /\ provided = [provider |-> "", outcome |-> ""]
  /\ requests = <<>>

NextFormat == \E activeEditor \in {"a.py", "n.ts", ""} : FormatSql(activeEditor)

SpecFormat == InitFormat /\ [][NextFormat]_vars

SpecStyle == InitStyle /\ [][NextFormat]_vars

(***************************************************************************)
(* vsce/src/extension.ts: refresh when something in it throws              *)
(***************************************************************************)
\* Where a throw may come from: "service" is getOrCreateLanguageService,
\* "extract" the extractor, "write" a writeSnapshot call and "delete" a
\* deleteSnapshot call.
Stages == {"service", "extract", "write", "delete"}

\* a try block that begins after the await
CaughtAfterAwait(stage) == stage \in {"extract", "write", "delete"}

\* The throw is caught: by the catch of extractSqlListPy for the extractor,
\* by the catch of refresh, whose try holds all of its body, for the rest.
Caught(stage) == TRUE

\* the catch of refresh: the error shown and [] returned; without it the
\* call throws
Failing(id, f, stage) ==
  /\ failed' = failed \cup {[id |-> id, fileName |-> f, stage |-> stage,
                             threw |-> ~Caught(stage)]}
  /\ IF Caught(stage)
     THEN /\ returned' = [id |-> id, fileName |-> f, sqlNodes |-> <<>>]
          /\ shown' = "[refresh] Error"
     ELSE UNCHANGED <<returned, shown>>

\* refresh(document) with a throw before its await
RefreshCallFails(f, stage) ==
  /\ nCalls < MaxCalls
  /\ nCalls' = nCalls + 1
  /\ stage \in {"service", "extract"}
  /\ stage = "extract" => LanguageId(f) = "python"
  /\ IF stage = "extract"
     THEN \* extractSqlListPy catches and returns []; refresh goes on with it
          /\ Suspend(f, nCalls + 1, docText[f], <<>>)
          /\ failed' = failed \cup {[id |-> nCalls + 1, fileName |-> f,
                                     stage |-> stage, threw |-> ~Caught(stage)]}
          /\ shown' = Notified("customRawSqlQuery", shown)
     ELSE /\ Failing(nCalls + 1, f, stage)
          /\ UNCHANGED <<microtasks, lastCall>>
  /\ reports' = IF stage = "extract" THEN Reported(reports) ELSE reports
  /\ UNCHANGED <<docText, virtualContents, snapshots, landed, program, extracted,
                 editVars, settings, lastConfig, formatVars, providerVars>>

\* the store when the writeSnapshot call after the first done calls threw
WritesBefore(task, done) ==
  WriteVirtualFiles(snapshots, task.fileName, task.rawContent,
                    docText[task.fileName], SubSeq(task.sqlNodes, 1, done), 0)

\* the store when the deleteSnapshot call after the first done calls threw
DeletesBefore(task, done) ==
  DeleteVirtualFiles(
    WritesBefore(task, Len(task.sqlNodes)),
    SubSeq(UnusedVirtualFiles(LastVirtualFileNames(task.fileName),
                              VFileNames(task.fileName, task.sqlNodes)), 1, done),
    1)

\* how many deleteSnapshot calls the refresh of task makes
Deletes(task) ==
  Len(UnusedVirtualFiles(LastVirtualFileNames(task.fileName),
                         VFileNames(task.fileName, task.sqlNodes)))

\* refresh(document) from its await on, with a throw from the store
RefreshResumeFails(stage, done) ==
  /\ microtasks # <<>>
  /\ \/ /\ stage = "write"
        /\ done < Len(Head(microtasks).sqlNodes)
        /\ snapshots' = WritesBefore(Head(microtasks), done)
     \/ /\ stage = "delete"
        /\ done < Deletes(Head(microtasks))
        /\ snapshots' = DeletesBefore(Head(microtasks), done)
  /\ Failing(Head(microtasks).id, Head(microtasks).fileName, stage)
  /\ microtasks' = Tail(microtasks)
  /\ UNCHANGED <<docText, virtualContents, nCalls, lastCall, landed, program,
                 extracted, editVars, configVars, formatVars, providerVars>>

InitFail ==
  /\ docText \in {[f \in Files |-> IF f = "a.py" THEN t ELSE InitialText(f)] :
                    t \in {TextTwo, TextQueryS}}
  /\ virtualContents = <<>>
  /\ snapshots = <<>>
  /\ microtasks = <<>>
  /\ returned = NothingReturned
  /\ nCalls = 0
  /\ lastCall = [f \in Files |-> NoCall]
  /\ landed = [f \in Files |-> NoLanding]
  /\ program = <<>>
  /\ extracted = NotExtracted
  /\ shown = ""
  /\ NoSessions
  /\ Activated

NextFail ==
  \/ \E f \in Files : RefreshCall(f)
  \/ RefreshResume
  \/ \E f \in Files, stage \in Stages : RefreshCallFails(f, stage)
  \/ \E stage \in Stages, done \in 0..1 : RefreshResumeFails(stage, done)
  \/ EditHost("a.py")

SpecFail == InitFail /\ [][NextFail]_vars

(***************************************************************************)
(* vsce/src/extension.ts: activate; vsce/src/hover.ts and                  *)
(* vsce/src/linkedEditing.ts: the providers                                *)
(***************************************************************************)
\* activate: the sqls client starts or fails to, then everything is registered
Activate(started) ==
  /\ client = "stopped"
  /\ client' = IF started THEN "running" ELSE "failed"
  /\ shown' = IF started THEN shown ELSE "sqlsurge: Failed to start sqls client."
  /\ registrations' = {"completion", "hover", "linkedEditing", "editSqlInTempFile"}
  /\ UNCHANGED <<docText, virtualContents, snapshots, microtasks, returned, nCalls,
                 lastCall, landed, program, extracted, editVars, configVars,
                 formatVars, failed, virtualDocuments, provided, requests>>

\* What vscode.commands.executeCommand may do with the delegated request:
\* give results, give none, or reject.  Without the client nothing answers.
Outcomes == IF client = "running" THEN {"results", "empty", "fails"}
            ELSE {"empty", "fails"}

\* a prefix taken from the host text as it is
HostPrefix(document, adjustedOffset) == Slice(document, 0, adjustedOffset)

\* document.getText().slice(0, adjustedOffset).replace(/[^\n]/g, " ")
BlankPrefix(document, adjustedOffset) == Blank(Slice(document, 0, adjustedOffset))

\* sqlNode.content.search(/\S/), 0 when there is none
SqlContentStart(content) ==
  IF SkipWs(content, 0) >= Len(content) THEN 0 ELSE SkipWs(content, 0)

\* vContent of a provider
VContent(document, sqlNode) ==
  BlankPrefix(document,
              RangeStart(document, sqlNode) + SqlContentStart(sqlNode.content))
  \o Slice(sqlNode.content, SqlContentStart(sqlNode.content), Len(sqlNode.content))

\* `${sqlNodeWithIndex.vFileName}_${sqlNodeWithIndex.index}`
UniqueVFileName(sqlNode) == sqlNode.vFileName \o "_" \o ToString(sqlNode.index)

\* provideHover from executeCommand on: the call is awaited outside any try
HoverResult(outcome) ==
  IF outcome = "fails" THEN "throws"
  ELSE IF outcome = "results" THEN "hover" ELSE "null"

\* provideLinkedEditingRanges from its try on
LinkedResult(outcome) == IF outcome = "results" THEN "ranges" ELSE "null"

\* a provider from await refresh on, for the fragment at place target of
\* what refresh returned (0: no fragment at the position)
Provide(provider, f, sqlNodes, target, result) ==
  /\ snapshots' = RefreshedSnapshots(f, docText[f], sqlNodes)
  /\ virtualContents' = RefreshedContents(f, sqlNodes)
  /\ returned' = [id |-> 0, fileName |-> f,
                  sqlNodes |-> WithVirtualDoc(sqlNodes, VFileNames(f, sqlNodes))]
  /\ shown' = Notified("customRawSqlQuery", shown)
  /\ IF target = 0
     THEN /\ provided' = [provider |-> provider, outcome |-> "null"]
          /\ UNCHANGED virtualDocuments
     ELSE /\ virtualDocuments' =
               [k \in DOMAIN virtualDocuments
                        \cup {UniqueVFileName(returned'.sqlNodes[target])} |->
                  IF k = UniqueVFileName(returned'.sqlNodes[target])
                  THEN VContent(docText[f], returned'.sqlNodes[target])
                  ELSE virtualDocuments[k]]
          /\ provided' = [provider |-> provider, outcome |-> result]
  /\ reports' = Reported(reports)
  /\ UNCHANGED <<docText, microtasks, nCalls, lastCall, landed, program, extracted,
                 editVars, settings, lastConfig, formatVars, failed, client,
                 registrations, requests>>

\* sqlNodes.find of the providers: the first fragment with the position
AtPosition(sqlNodes, position) ==
  TargetSqlNode(sqlNodes, [start |-> position, end |-> position])

provideHover(f, position, outcome) ==
  /\ "hover" \in registrations
  /\ LanguageId(f) = "python"
  /\ Provide("hover", f, extractSqlListPy(docText[f], RulesFor(f)),
             AtPosition(extractSqlListPy(docText[f], RulesFor(f)), position),
             HoverResult(outcome))

provideLinkedEditingRanges(f, position, outcome) ==
  /\ "linkedEditing" \in registrations
  /\ LanguageId(f) = "python"
  /\ Provide("linkedEditing", f, extractSqlListPy(docText[f], RulesFor(f)),
             AtPosition(extractSqlListPy(docText[f], RulesFor(f)), position),
             LinkedResult(outcome))

Positions == {Pos(0, 0), Pos(0, 9), Pos(1, 7)}

\* the extension is not activated yet; a.py and b.py hold texts with fragments
InitProviders ==
  /\ docText \in {[f \in Files |-> IF f = "a.py" THEN t
                                   ELSE IF f = "b.py" THEN u ELSE InitialText(f)] :
                    t \in {TextQueryS, TextTwo, TextIndented},
                    u \in {TextOther, TextQueryD, TextTwoD}}
  /\ virtualContents = <<>>
  /\ snapshots = <<>>
  /\ microtasks = <<>>
  /\ returned = NothingReturned
  /\ nCalls = 0
  /\ lastCall = [f \in Files |-> NoCall]
  /\ landed = [f \in Files |-> NoLanding]
  /\ program = <<>>
  /\ extracted = NotExtracted
  /\ shown = ""
  /\ NoSessions
  /\ settings = [key \in ConfigKeys |-> Unset]
  /\ lastConfig = NoConfigCall
  /\ reports = 0
  /\ printer = "layout"
  /\ tabSize = 2
  /\ formatRuns = <<>>
  /\ failed = {}
  /\ client = "stopped"
  /\ registrations = {}
  /\ virtualDocuments = <<>>
  /\ provided = [provider |-> "", outcome |-> ""]
  /\ styleFile = "missing"
  /\ requests = <<>>

NextProviders ==
  \/ \E started \in BOOLEAN : Activate(started)
  \/ \E f \in Files, position \in Positions, outcome \in Outcomes :
       provideHover(f, position, outcome)
  \/ \E f \in Files, position \in Positions, outcome \in Outcomes :
       provideLinkedEditingRanges(f, position, outcome)

SpecProviders == InitProviders /\ [][NextProviders]_vars

(***************************************************************************)
(* The providers with their backend call pending                           *)
(***************************************************************************)
\* at most MaxRequests provider calls in a behaviour
MaxRequests == 2

\* a provider up to its await of executeCommand, for the fragment at place
\* target of what refresh returned (0: no fragment, null is returned at once)
Delegate(provider, f, sqlNodes, target, position) ==
  /\ snapshots' = RefreshedSnapshots(f, docText[f], sqlNodes)
  /\ virtualContents' = RefreshedContents(f, sqlNodes)
  /\ returned' = [id |-> 0, fileName |-> f,
                  sqlNodes |-> WithVirtualDoc(sqlNodes, VFileNames(f, sqlNodes))]
  /\ shown' = Notified("customRawSqlQuery", shown)
  /\ virtualDocuments' =
       IF target = 0 THEN virtualDocuments
       ELSE [k \in DOMAIN virtualDocuments
                     \cup {UniqueVFileName(returned'.sqlNodes[target])} |->
               IF k = UniqueVFileName(returned'.sqlNodes[target])
               THEN VContent(docText[f], returned'.sqlNodes[target])
               ELSE virtualDocuments[k]]
  /\ requests' = Append(requests,
                        [provider |-> provider, fileName |-> f,
                         position |-> position, text |-> docText[f],
                         index |-> target,
                         state |-> IF target = 0 THEN "returned" ELSE "pending",
                         result |-> IF target = 0 THEN "null" ELSE "",
                         superseded |-> FALSE])

\* provideHover or provideLinkedEditingRanges is called and runs to its
\* await of executeCommand
Request(provider, f, position) ==
  /\ Len(requests) < MaxRequests
  /\ provider \in registrations
  /\ LanguageId(f) = "python"
  /\ Delegate(provider, f, extractSqlListPy(docText[f], RulesFor(f)),
              AtPosition(extractSqlListPy(docText[f], RulesFor(f)), position),
              position)
  /\ reports' = Reported(reports)
  /\ UNCHANGED <<docText, microtasks, nCalls, lastCall, landed, program, extracted,
                 editVars, settings, lastConfig, formatVars, failed, client,
                 registrations, provided>>

\* a later call of the same provider on the same file asked for another
\* position or was made on another text
Superseded(k) ==
  \E j \in (k + 1)..Len(requests) :
    /\ requests[j].provider = requests[k].provider
    /\ requests[j].fileName = requests[k].fileName
    /\ \/ requests[j].position # requests[k].position
       \/ requests[j].text # requests[k].text

\* what the k-th call returns once executeCommand settled with result: the
\* result, with no look at the calls made since
Given(k, result) == result

\* executeCommand of the k-th call settles and the provider returns
Answer(k, outcome) ==
  /\ k \in 1..Len(requests)
  /\ requests[k].state = "pending"
  /\ requests' =
       [requests EXCEPT ![k] =
          [@ EXCEPT !.state = "returned",
                    !.result = Given(k, IF requests[k].provider = "hover"
                                        THEN HoverResult(outcome)
                                        ELSE LinkedResult(outcome)),
                    !.superseded = Superseded(k)]]
  /\ provided' = [provider |-> requests[k].provider, outcome |-> requests'[k].result]
  /\ UNCHANGED <<docText, virtualContents, snapshots, microtasks, returned, nCalls,
                 lastCall, landed, program, extracted, shown, editVars, configVars,
                 formatVars, failed, client, registrations, virtualDocuments>>

\* a.py holds a text with fragments
InitStale ==
  /\ docText = [f \in Files |-> IF f = "a.py" THEN TextQueryS ELSE InitialText(f)]
  /\ virtualContents = <<>>
  /\ snapshots = <<>>
  /\ microtasks = <<>>
  /\ returned = NothingReturned
  /\ nCalls = 0
  /\ lastCall = [f \in Files |-> NoCall]
  /\ landed = [f \in Files |-> NoLanding]
  /\ program = <<>>
  /\ extracted = NotExtracted
  /\ shown = ""
  /\ NoSessions
  /\ Activated

NextStale ==
  \/ \E provider \in {"hover", "linkedEditing"}, position \in Positions :
       Request(provider, "a.py", position)
  \/ \E k \in 1..MaxRequests, outcome \in Outcomes : Answer(k, outcome)
  \/ EditHost("a.py")

SpecStale == InitStale /\ [][NextStale]_vars

(***************************************************************************)
(* The settings, read on their own and by refresh                          *)
(***************************************************************************)
\* getWorkspaceConfig(key), called as the tests of extConfig call it
GetWorkspaceConfig(key) ==
  /\ lastConfig' = getWorkspaceConfig(key)
  /\ shown' = Notified(key, shown)
  /\ reports' = IF key = "customRawSqlQuery" THEN Reported(reports) ELSE reports
  /\ UNCHANGED <<docText, virtualContents, snapshots, microtasks, returned, nCalls,
                 lastCall, landed, program, extracted, editVars, settings,
                 formatVars, failed, providerVars>>

\* The user changes a setting; the listener of onDidChangeConfiguration
\* validates customRawSqlQuery.
ChangeConfiguration(key) ==
  /\ \E config \in ConfigValues(key) \ {settings[key]} :
       settings' = [settings EXCEPT ![key] = config]
  /\ shown' = IF SafeParse("customRawSqlQuery", settings'["customRawSqlQuery"]).success
              THEN shown ELSE InvalidSettings
  /\ reports' = IF SafeParse("customRawSqlQuery", settings'["customRawSqlQuery"]).success
                THEN (IF key = "customRawSqlQuery" THEN 0 ELSE reports)
                ELSE IF key = "customRawSqlQuery" THEN 1
                ELSE IF reports < 2 THEN reports + 1 ELSE 2
  /\ UNCHANGED <<docText, virtualContents, snapshots, microtasks, returned, nCalls,
                 lastCall, landed, program, extracted, editVars, lastConfig,
                 formatVars, failed, providerVars>>

\* a.py calls run(...), which only a rule of the settings names, and query(...)
InitConfig ==
  /\ docText = [f \in Files |-> IF f = "a.py" THEN TextRun ELSE InitialText(f)]
  /\ virtualContents = <<>>
  /\ snapshots = <<>>
  /\ microtasks = <<>>
  /\ returned = NothingReturned
  /\ nCalls = 0
  /\ lastCall = [f \in Files |-> NoCall]
  /\ landed = [f \in Files |-> NoLanding]
  /\ program = <<>>
  /\ extracted = NotExtracted
  /\ shown = ""
  /\ NoSessions
  /\ Activated

\* the settings changed and read on their own
NextConfig ==
  \/ \E key \in ConfigKeys : GetWorkspaceConfig(key)
  \/ \E key \in ConfigKeys : ChangeConfiguration(key)

SpecConfig == InitConfig /\ [][NextConfig]_vars

\* the rules changed, and refresh reading them
NextRules ==
  \/ ChangeConfiguration("customRawSqlQuery")
  \/ \E f \in {"a.py", "n.ts"} : RefreshCall(f)
  \/ RefreshResume

SpecRules == InitConfig /\ [][NextRules]_vars

(***************************************************************************)
(* Properties of refresh                                                   *)
(***************************************************************************)
\* no host text of the model holds more than MaxFragments fragments
MaxFragments == 2

Range(seq) == {seq[i] : i \in 1..Len(seq)}

\* the keys "{hostFile}@{i}.sql" for i = 0..n-1
KeyList(f, n) == [i \in 1..n |-> f \o "@" \o ToString(i - 1) \o ".sql"]

\* the keys of the backing store that belong to the host file f
StoreKeys(store, f) ==
  {k \in DOMAIN store : \E i \in 0..MaxFragments : k = f \o "@" \o ToString(i) \o ".sql"}

\* this step is a refresh of f finishing
Landing(f) == landed'[f].id # landed[f].id

\* the text of a virtual document: as long as the host text up to the
\* fragment's start, blank but for the host's line breaks, then the content
IsVirtualTextOf(t, hostText, document, sqlNode) ==
  LET off == OffsetAt(document, sqlNode.code_range.start.line,
                      sqlNode.code_range.start.character)
      p == IF off < Len(hostText) THEN off ELSE Len(hostText)
  IN /\ Len(t) = p + Len(sqlNode.content)
     /\ \A j \in 1..p : t[j] = IF hostText[j] = NL THEN NL ELSE " "
     /\ \A j \in 1..Len(sqlNode.content) : t[p + j] = sqlNode.content[j]

\* C1: when a refresh of a python host file finishes, with F_old the key list
\* stored for the file before and F_new the keys file@i.sql for i = 0..N-1, N
\* the number of fragments it extracted from the text it read: every key of
\* F_old that is not in F_new is absent from the backing store, every key of
\* F_new is present in it, and the key list stored for the file is F_new.
C1_RefreshDiff ==
  [][\A f \in Files : Landing(f) =>
       LET Fold == LastVirtualFileNames(f)
           Fnew == KeyList(f, Len(landed'[f].sqlNodes))
       IN /\ \A k \in Range(Fold) \ Range(Fnew) : k \notin DOMAIN snapshots'
          /\ \A k \in Range(Fnew) : k \in DOMAIN snapshots'
          /\ f \in DOMAIN virtualContents'
          /\ virtualContents'[f] = Fnew]_vars

\* a refresh finished that found one fragment where two keys were stored, and
\* the second key is gone while the first is there
C1_Witness ==
  /\ landed["a.py"].lastVirtualFileNames = <<"a.py@0.sql", "a.py@1.sql">>
  /\ Len(landed["a.py"].sqlNodes) = 1
  /\ "a.py@1.sql" \notin DOMAIN snapshots
  /\ "a.py@0.sql" \in DOMAIN snapshots
  /\ virtualContents["a.py"] = <<"a.py@0.sql">>

\* C2: when a refresh of a host file finishes that found as many fragments as
\* the refresh of the file before it, some with another content, the stored
\* key list is the same as before, no virtual document is deleted, and every
\* virtual document of the file has the text built from the fragment this
\* refresh found.
C2_SameCountNewContent ==
  [][\A f \in Files :
       ( /\ Landing(f)
         /\ landed[f].id # 0
         /\ Len(landed'[f].sqlNodes) = Len(landed[f].sqlNodes)
         /\ \E i \in 1..Len(landed[f].sqlNodes) :
              landed'[f].sqlNodes[i].content # landed[f].sqlNodes[i].content )
       => /\ virtualContents'[f] = virtualContents[f]
          /\ DOMAIN snapshots \subseteq DOMAIN snapshots'
          /\ \A i \in 1..Len(landed'[f].sqlNodes) :
               IsVirtualTextOf(snapshots'[KeyList(f, i)[i]], landed'[f].rawContent,
                               landed'[f].document, landed'[f].sqlNodes[i])]_vars

\* two refreshes of a.py finished one after the other, the first having read
\* the text with the fragment "SELECT * FROM users", the second the one with
\* the fragment "S", and the virtual document holds the second
C2_Witness ==
  /\ landed["a.py"].lastRawContent = TextUsers
  /\ landed["a.py"].rawContent = TextQueryS
  /\ landed["a.py"].document = TextQueryS
  /\ virtualContents["a.py"] = <<"a.py@0.sql">>
  /\ snapshots["a.py@0.sql"] = <<" "," "," "," "," "," "," "," "," ","S">>

\* C3: refresh is idempotent.  When a refresh of a host file finishes that
\* read the same text as the refresh of the file before it, the document
\* holding that text at both, it returns the same fragment list, and it leaves
\* the stored key lists and the whole backing store as they were (so it
\* deletes nothing).
C3_Idempotent ==
  [][\A f \in Files :
       ( /\ Landing(f)
         /\ landed[f].id # 0
         /\ landed'[f].rawContent = landed[f].rawContent
         /\ landed[f].document = landed[f].rawContent
         /\ landed'[f].document = landed'[f].rawContent )
       => /\ landed'[f].result = landed[f].result
          /\ returned'.sqlNodes = landed[f].result
          /\ virtualContents' = virtualContents
          /\ snapshots' = snapshots]_vars

\* two refreshes of a.py finished one after the other on the same text of two
\* fragments
C3_Witness ==
  /\ landed["a.py"].id >= 2
  /\ landed["a.py"].rawContent = TextTwo
  /\ landed["a.py"].lastRawContent = TextTwo
  /\ landed["a.py"].document = TextTwo
  /\ Len(landed["a.py"].result) = 2
  /\ landed["a.py"].lastVirtualFileNames = virtualContents["a.py"]

\* C4: refreshes of one host file take effect in the order of their calls.  No
\* suspended refresh is older than the refresh that finished last on its file;
\* and once no refresh of a file is suspended, the latest call on the file is
\* the one that finished last, the stored key list is the one of the
\* fragments that call extracted from the text it read, and each virtual document ends with
\* the content of its fragment.
C4_Linearized ==
  /\ \A i \in 1..Len(microtasks) :
       microtasks[i].id > landed[microtasks[i].fileName].id
  /\ \A f \in Files :
       (LanguageId(f) = "python" /\ Pending(f) = {} /\ lastCall[f].id # 0)
       => LET nodes == lastCall[f].sqlNodes
          IN /\ landed[f].id = lastCall[f].id
             /\ landed[f].rawContent = lastCall[f].rawContent
             /\ virtualContents[f] = KeyList(f, Len(nodes))
             /\ \A i \in 1..Len(nodes) :
                  LET t == snapshots[KeyList(f, i)[i]]
                  IN /\ Len(t) >= Len(nodes[i].content)
                     /\ SubSeq(t, Len(t) - Len(nodes[i].content) + 1, Len(t))
                          = nodes[i].content

\* a refresh of a.py was called while another was suspended, on another text,
\* and both have finished
C4_Witness ==
  /\ lastCall["a.py"].overlapped
  /\ Pending("a.py") = {}
  /\ landed["a.py"].id = lastCall["a.py"].id
  /\ landed["a.py"].lastRawContent # landed["a.py"].rawContent
  /\ landed["a.py"].lastRawContent # <<>>
  /\ landed["a.py"].sqlNodes # <<>>

\* C5: whenever no refresh of a python host file is suspended, the keys of the
\* file present in the backing store are the keys of the list stored for it.
C5_KeysMatchStore ==
  \A f \in Files :
    (LanguageId(f) = "python" /\ Pending(f) = {})
    => StoreKeys(snapshots, f) = Range(LastVirtualFileNames(f))

\* overlapping refreshes of a.py have finished, the last of them dropping the
\* second of two keys
C5_Witness ==
  /\ lastCall["a.py"].overlapped
  /\ microtasks = <<>>
  /\ Len(landed["a.py"].lastVirtualFileNames) = 2
  /\ StoreKeys(snapshots, "a.py") = {"a.py@0.sql"}

\* (line, column) of an offset in a text
PositionAt(text, offset) ==
  LET before == Slice(text, 0, offset)
      breaks == {j \in 1..Len(before) : before[j] = NL}
      lineStart == IF breaks = {} THEN 0
                   ELSE CHOOSE j \in breaks : \A k \in breaks : k <= j
  IN [line |-> Cardinality(breaks), character |-> Len(before) - lineStart]

\* C6: for every fragment a refresh returned for a document that was not
\* edited meanwhile, and every offset inside its span, the (line, column) of
\* the offset in the virtual document is its (line, column) in the host text.
C6_SameCoordinates ==
  \A f \in Files :
    (landed[f].id # 0 /\ landed[f].document = landed[f].rawContent)
    => \A i \in 1..Len(landed[f].result) :
         LET node == landed[f].result[i]
             from == OffsetAt(landed[f].rawContent, node.code_range.start.line,
                              node.code_range.start.character)
             to == OffsetAt(landed[f].rawContent, node.code_range.end.line,
                            node.code_range.end.character)
         IN \A offset \in from..(to - 1) :
              /\ offset <= Len(snapshots[node.vFileName])
              /\ PositionAt(snapshots[node.vFileName], offset)
                   = PositionAt(landed[f].rawContent, offset)

\* C10: a refresh of the document holding the one line
\* cursor.execute("SELECT * FROM users") returns one fragment, of content
\* SELECT * FROM users and span (0,16)-(0,35), and its virtual document is 16
\* spaces followed by that content.
C10_UsersExample ==
  \A f \in Files :
    (landed[f].id # 0 /\ landed[f].rawContent = TextUsers
       /\ landed[f].document = TextUsers)
    => /\ Len(landed[f].result) = 1
       /\ landed[f].result[1].content
            = <<"S","E","L","E","C","T"," ","*"," ","F","R","O","M"," ",
                "u","s","e","r","s">>
       /\ landed[f].result[1].code_range
            = [start |-> [line |-> 0, character |-> 16],
               end |-> [line |-> 0, character |-> 35]]
       /\ snapshots[landed[f].result[1].vFileName]
            = [j \in 1..16 |-> " "]
                \o <<"S","E","L","E","C","T"," ","*"," ","F","R","O","M"," ",
                     "u","s","e","r","s">>

\* the refresh of that document finished and returned its fragment
C10_Witness ==
  /\ landed["a.py"].rawContent = TextUsers
  /\ landed["a.py"].document = TextUsers
  /\ returned.fileName = "a.py"
  /\ Len(returned.sqlNodes) = 1
  /\ returned.sqlNodes[1].vFileName = "a.py@0.sql"
  /\ Len(snapshots["a.py@0.sql"]) = 35

(***************************************************************************)
(* Properties of the extractor                                             *)
(***************************************************************************)
\* where statement k of a program begins in its text, and the offset after it
StatementStart(prog, k) ==
  IF k = 1 THEN 0
  ELSE Len(ProgramText(SubSeq(prog, 1, k - 1))) + Len(SeparatorText(prog[k].sep))
StatementEnd(prog, k) == StatementStart(prog, k) + Len(ShapeText(prog[k].shape))

\* the offset in the program's text at which a fragment's span starts
SpanStart(prog, sqlNode) ==
  OffsetAt(ProgramText(prog), sqlNode.code_range.start.line,
           sqlNode.code_range.start.character)

\* the fragments whose span starts inside statement k
FragmentsOf(prog, sqlNodes, k) ==
  {i \in 1..Len(sqlNodes) :
     /\ SpanStart(prog, sqlNodes[i]) >= StatementStart(prog, k)
     /\ SpanStart(prog, sqlNodes[i]) < StatementEnd(prog, k)}

Before(p, q) ==
  p.line < q.line \/ (p.line = q.line /\ p.character < q.character)

\* C7: for a host text of N well-formed calls that match a rule, one after the
\* other (on one line or on several), extraction returns N fragments, each
\* starting before the next.
C7_OnePerCallInOrder ==
  (extracted.done
     /\ \A k \in 1..Len(program) : program[k].shape \in {"call1", "call2", "block"})
  => /\ Len(extracted.sqlNodes) = Len(program)
     /\ \A i \in 1..(Len(extracted.sqlNodes) - 1) :
          Before(extracted.sqlNodes[i].code_range.start,
                 extracted.sqlNodes[i + 1].code_range.start)

\* C8: a call that is not terminated (its parenthesis or its string literal
\* is never closed) yields no fragment, whatever follows it: no fragment's
\* span starts in its text.
C8_UnterminatedYieldsNothing ==
  extracted.done
  => \A k \in 1..Len(program) :
       program[k].shape \in {"openParen", "openStr"}
       => FragmentsOf(program, extracted.sqlNodes, k) = {}

\* C9: a triple-quoted block over three lines, in a call that starts its line
\* L, yields one fragment, from line L to line L + 2.
C9_BlockIsOneFragment ==
  extracted.done
  => \A k \in 1..Len(program) :
       ( /\ program[k].shape \in {"block", "blockCall"}
         /\ (k = 1 \/ program[k].sep = "newline") )
       => LET L == PositionAt(ProgramText(program), StatementStart(program, k)).line
              found == FragmentsOf(program, extracted.sqlNodes, k)
          IN /\ Cardinality(found) = 1
             /\ \A i \in found :
                  /\ extracted.sqlNodes[i].code_range.start.line = L
                  /\ extracted.sqlNodes[i].code_range.end.line = L + 2


(***************************************************************************)
(* Properties of the detached-edit session                                 *)
(***************************************************************************)
Trigger(kind, i) == [kind |-> kind, session |-> i]
BothTriggers(i) == {Trigger("save", i), Trigger("close", i)}
OpenSessions == {i \in 1..Len(sessions) : ~sessions[i].closed}

\* the syncBackToOriginal calls for session i that a step started
StartedFor(i) ==
  {k \in (Len(syncTasks) + 1)..(Len(syncTasks') + 1) :
     k <= Len(syncTasks') /\ syncTasks'[k].session = i}
SyncStep == Len(syncTasks') = Len(syncTasks) - 1

\* C11: a detached-edit session is Open until its buffer is closed.  A save
\* of the buffer never ends the session: both its triggers stay registered
\* and every save, the first as much as a later one, starts a write-back.
\* Closing the buffer is final: the session stays closed, its triggers are
\* gone, and a save event delivered afterwards starts no write-back, so no
\* write-back ever stems from a save after the close.
C11_SaveRepeatsCloseEnds ==
  [][ /\ \A i \in 1..Len(sessions) :
           /\ sessions'[i].saves > sessions[i].saves
                => /\ ~sessions'[i].closed
                   /\ BothTriggers(i) \subseteq triggers'
                   /\ ~SyncStep /\ StartedFor(i) # {}
           /\ sessions'[i].lateSaves > sessions[i].lateSaves
                => ~SyncStep /\ StartedFor(i) = {}
           /\ sessions[i].closed
                => sessions'[i].closed /\ BothTriggers(i) \cap triggers' = {}
      /\ \A k \in 1..Len(syncTasks') : ~syncTasks'[k].afterClose
      /\ ~lastSync'.afterClose ]_vars

\* a session that was saved and written back, then closed, then sent a save
C11_Witness ==
  \E i \in 1..Len(sessions) :
    /\ sessions[i].saves >= 1
    /\ sessions[i].closed
    /\ sessions[i].lateSaves >= 1
    /\ lastSync.session = i /\ lastSync.wrote
    /\ syncTasks = <<>>

\* C12: the save and close triggers registered are exactly the two of each
\* session that is open and not closed, so their number is twice the number
\* of such sessions, and the tracking entries are those of these sessions;
\* closing a buffer releases both triggers of its session and its entry.
C12_TwoTriggersPerOpenSession ==
  /\ triggers = UNION {BothTriggers(i) : i \in OpenSessions}
  /\ Cardinality(triggers) = 2 * Cardinality(OpenSessions)
  /\ DOMAIN tempSqlFiles = {sessions[i].tempUri : i \in OpenSessions}

\* one session closed after another was opened, under different uris
C12_Witness ==
  /\ Len(sessions) = 2
  /\ sessions[1].closed /\ ~sessions[2].closed
  /\ sessions[1].tempUri # sessions[2].tempUri
  /\ Cardinality(triggers) = 2

\* C13: a write-back that finds no visible editor of the host document
\* leaves the host text as it is, shows the warning, and keeps the session
\* open with the triggers it had; a write-back that finds the editor visible
\* writes, whether or not an earlier one was skipped.
C13_SkippedWhenHidden ==
  [][ SyncStep =>
        IF visible
        THEN lastSync'.wrote /\ sessions' = sessions
        ELSE /\ ~lastSync'.wrote
             /\ docText' = docText
             /\ shown' = "Original file is not open. Please open it to sync changes."
             /\ triggers' = triggers
             /\ \A i \in 1..Len(sessions) : sessions'[i].closed = sessions[i].closed
             /\ sessions'[lastSync'.session].skipped
                  = sessions[lastSync'.session].skipped + 1 ]_vars

\* a save skipped while a.py was hidden, and a later save of the same
\* session written back
C13_Witness ==
  /\ lastSync.wrote
  /\ lastSync.after # lastSync.before
  /\ sessions[lastSync.session].skipped >= 1
  /\ ~sessions[lastSync.session].closed
  /\ BothTriggers(lastSync.session) \subseteq triggers

\* a text without its whitespace
Squeeze(s) == SelectSeq(s, LAMBDA c : ~IsWs(c))

\* the write-back that a step finished was made to the host text the
\* session was opened on, from a buffer the user had changed
WroteToUnchangedHost ==
  /\ SyncStep
  /\ lastSync'.wrote
  /\ lastSync'.before = sessions[lastSync'.session].hostAtOpen
  /\ lastSync'.buffer # Trim(sessions[lastSync'.session].sqlNode.content)

\* after is before with the span of sqlNode replaced by a text that keeps
\* the span's leading whitespace and holds the buffer's content
SpanReplaced(before, after, sqlNode, buffer) ==
  LET s == RangeStart(before, sqlNode)
      rest == Len(before) - RangeEnd(before, sqlNode)
  IN /\ Len(after) >= s + rest
     /\ Slice(after, 0, s) = Slice(before, 0, s)
     /\ Slice(after, Len(after) - rest, Len(after))
          = Slice(before, RangeEnd(before, sqlNode), Len(before))
     /\ Slice(after, s, s + Len(LeadingWhitespace(OriginalText(before, sqlNode))))
          = LeadingWhitespace(OriginalText(before, sqlNode))
     /\ Squeeze(Slice(after, s, Len(after) - rest)) = Squeeze(buffer)

\* C14: when a changed buffer is saved while the host document is visible
\* and as it was when the session was opened, the host text afterwards is
\* the text before with the fragment's span replaced by the buffer's
\* content, the span's original leading indentation kept, and the text
\* outside the span as it was.
C14_SpanReplacedByBuffer ==
  [][ WroteToUnchangedHost =>
        SpanReplaced(lastSync'.before, lastSync'.after,
                     sessions[lastSync'.session].sqlNode, lastSync'.buffer) ]_vars

\* the write-back that a step finished was made to the host text the
\* session was opened on, from a buffer that holds what the session put
\* into it
SavedUnmodified ==
  /\ SyncStep
  /\ lastSync'.wrote
  /\ lastSync'.before = sessions[lastSync'.session].hostAtOpen
  /\ lastSync'.buffer = Trim(sessions[lastSync'.session].sqlNode.content)

\* C31: opening a detached-edit session on a fragment and saving the buffer
\* as the session filled it leaves the host text as it was, whatever the
\* fragment's shape: on one line, a triple-quoted block with leading
\* whitespace, or SQL that begins and ends with a quote character.
C31_UnmodifiedSaveChangesNothing ==
  [][ SavedUnmodified => lastSync'.after = lastSync'.before ]_vars
\* a write-back finished in this step, while the session it belongs to is
\* the only one opened, so that nothing else has written to the host text
SavedAlone ==
  /\ SyncStep
  /\ lastSync'.wrote
  /\ Len(sessions) = 1

\* C32: with one detached-edit session and no other edit of the host text,
\* after every save, the first or a later one, the host text is the text the
\* session was opened on with the fragment's span replaced by the buffer's
\* content of that save; a save after one of another length leaves the text
\* outside the fragment as it was.
C32_EverySaveReplacesFragment ==
  [][ SavedAlone =>
        lastSync'.after = Replaced(sessions[lastSync'.session].hostAtOpen,
                                   sessions[lastSync'.session].sqlNode,
                                   lastSync'.buffer) ]_vars

(***************************************************************************)
(* Properties of the settings                                              *)
(***************************************************************************)
\* refresh was called on f in this step and reached its await
Called(f) == lastCall'[f].id # lastCall[f].id
\* refresh was called on f in this step and returned at once
ReturnedAtOnce(f) ==
  /\ nCalls' # nCalls
  /\ returned'.id = nCalls' /\ returned'.fileName = f

\* the rules set are rules of a family other than that of f
OtherFamily(f, config) == config.type = "object" /\ config.language # LanguageId(f)

\* C16: when the rules set are those of a language other than the
\* document's, refresh extracts as if no rules were set: a python document
\* is extracted with the default rules, and a document of another family
\* gets no fragment from the python rules.
C16_OtherFamilyIgnored ==
  [][ \A f \in Files :
        OtherFamily(f, settings["customRawSqlQuery"]) =>
          /\ Called(f) =>
               lastCall'[f].sqlNodes = extractSqlListPy(docText[f], Undefined)
          /\ ReturnedAtOnce(f) => returned'.sqlNodes = <<>> ]_vars

\* a.py refreshed under valid typescript rules that name run: the fragment
\* found is that of query, which the default rules name, and not that of run
C16_Witness ==
  /\ lastCall["a.py"].id > 0
  /\ lastCall["a.py"].config = Obj("typescript", <<RunRule(1)>>, <<>>)
  /\ Len(lastCall["a.py"].sqlNodes) = 1
  /\ lastCall["a.py"].sqlNodes[1].content = <<"T">>
  /\ extractSqlListPy(lastCall["a.py"].rawContent, Defined(<<RunRule(1)>>))[1].content
       = <<"S">>

\* what the schema of a key asks of a value
Satisfies(key, config) ==
  IF key = "customRawSqlQuery"
  THEN /\ config.type = "object"
       /\ config.language \in {"python", "typescript"}
       /\ \A i \in 1..Len(config.configs) : config.configs[i].sqlArgNo >= 1
  ELSE config.type = "boolean"

\* the value without the entries no schema names
Known(config) ==
  IF config.type = "object" THEN [config EXCEPT !.unknown = <<>>] ELSE config

\* C17 as stated: a value that satisfies the schema of its key is returned
\* unchanged.
C17_ValidReturnedUnchanged ==
  (lastConfig.key # "" /\ Satisfies(lastConfig.key, lastConfig.config))
    => lastConfig.returned = lastConfig.config

\* C17, amended: getWorkspaceConfig never throws.  A value that satisfies
\* the schema of its key is returned as parsed, that is without the entries
\* the schema does not name, hence unchanged when it holds no such entry,
\* and nothing is logged or shown.  Any other value gives undefined, with
\* the error logged and the error message shown.
C17_ParsedOrUndefined ==
  lastConfig.key # "" =>
    /\ ~lastConfig.threw
    /\ IF Satisfies(lastConfig.key, lastConfig.config)
       THEN /\ lastConfig.returned = Known(lastConfig.config)
            /\ ~lastConfig.logged /\ ~lastConfig.notified
       ELSE /\ lastConfig.returned = Unset
            /\ lastConfig.logged /\ lastConfig.notified

\* python rules with an entry "comment" beside language and configs:
\* returned without that entry
C17_Witness ==
  /\ lastConfig.key = "customRawSqlQuery"
  /\ lastConfig.config = Obj("python", <<RunRule(1)>>, <<"comment">>)
  /\ lastConfig.returned = Obj("python", <<RunRule(1)>>, <<>>)


(***************************************************************************)
(* Properties of sqlsurge.formatSql                                        *)
(***************************************************************************)
\* contents the printers are tried on
Samples == {<<"s">>, <<"a", NL, " ", " ", "b">>, <<"S">>, <<"T">>, <<"S", "S">>}
Indents == {<<" ">>, <<" ", " ">>, <<" ", " ", " ", " ">>}

\* the printer gives its own output back
Idempotent(p) == \A x \in Samples : Format(p, Format(p, x)) = Format(p, x)

\* the printer gives its output back also after the lines of that output
\* were indented
LayoutFree(p) ==
  \A x \in Samples, ind \in Indents :
    Format(p, Trim(Join(Indented(SplitLines(Format(p, x)), ind, <<>>), 1)))
      = Format(p, x)

\* the fragments extracted from the text a run left are, whitespace apart,
\* what the printer gave in that run
RoundTrip(run) ==
  LET again == extractSqlListPy(run.after, Undefined)
  IN /\ Len(again) = Len(run.outputs)
     /\ \A i \in 1..Len(again) : Squeeze(again[i].content) = Squeeze(run.outputs[i])

\* the runs on a.py that came right after another run on a.py
SecondRuns ==
  {k \in 2..Len(formatRuns) :
     formatRuns[k].fileName = "a.py" /\ formatRuns[k - 1].fileName = "a.py"}
PythonRuns == {k \in 1..Len(formatRuns) : formatRuns[k].fileName = "a.py"}

\* C15 as stated: with an idempotent printer, re-extraction after a format
\* run gives the printer's output up to whitespace, and a second run leaves
\* the text as the first left it, with re-indentation enabled or not.
C15_SecondRunChangesNothing ==
  Idempotent(printer) =>
    /\ \A k \in PythonRuns : RoundTrip(formatRuns[k])
    /\ \A k \in SecondRuns : formatRuns[k].after = formatRuns[k].before

\* C15, amended: with an idempotent printer, re-extraction after a format
\* run gives the printer's output up to whitespace; a second run leaves the
\* text as the first left it when re-indentation is disabled, and also when
\* it is enabled provided the printer's output does not depend on the
\* indentation of its input.
C15_SecondRunStableWhenLayoutFree ==
  Idempotent(printer) =>
    /\ \A k \in PythonRuns : RoundTrip(formatRuns[k])
    /\ \A k \in SecondRuns :
         (~formatRuns[k].indent \/ LayoutFree(printer))
           => formatRuns[k].after = formatRuns[k].before

\* the indented block formatted twice with re-indentation by a printer that
\* lays lines out anew: the first run changed the text, the second did not
C15_Witness ==
  /\ Len(formatRuns) = 2
  /\ formatRuns[1].before = TextNested
  /\ formatRuns[1].indent /\ formatRuns[2].indent
  /\ LayoutFree(printer)
  /\ formatRuns[1].after # formatRuns[1].before
  /\ formatRuns[2].before = formatRuns[1].after
  /\ formatRuns[2].after = formatRuns[2].before


\* the whitespace a text starts with, and the whitespace it ends with
LeadingWs(s) == Slice(s, 0, SkipWs(s, 0))
TrailingWs(s) == Slice(s, SkipWsBack(s, Len(s)), Len(s))
StartsWith(s, sub) == OccursAt(s, sub, 0)
EndsWith(s, sub) == OccursAt(s, sub, Len(s) - Len(sub))

\* C21: the replacement a format run writes for a fragment starts with the
\* whitespace the literal's text started with and ends with the whitespace
\* it ended with.
C21_WhitespaceReattached ==
  \A k \in PythonRuns :
    \A i \in 1..Len(formatRuns[k].edits) :
      /\ StartsWith(formatRuns[k].edits[i].new, LeadingWs(formatRuns[k].edits[i].old))
      /\ EndsWith(formatRuns[k].edits[i].new, TrailingWs(formatRuns[k].edits[i].old))

\* the indentation of the line the fragment's call starts on
OwnerIndent(run, edit) == LeadingWs(SplitLines(run.before)[edit.methodLine + 1])

\* one indent unit of the editor: tabSize blanks
IndentUnit == [i \in 1..tabSize |-> " "]

\* the runs on a.py made with re-indentation enabled
IndentedRuns == {k \in PythonRuns : formatRuns[k].indent}

\* C22: with re-indentation enabled, the first line of a replacement is the
\* printer's first line, and every later line is the printer's line after
\* the owning line's indentation and one indent unit, whatever the owning
\* line's indentation is.
C22_LinesAfterFirstIndented ==
  \A k \in IndentedRuns :
    \A i \in 1..Len(formatRuns[k].edits) :
      LET edit == formatRuns[k].edits[i]
          lines == SplitLines(edit.new)
          printed == SplitLines(edit.output)
      IN /\ Len(lines) = Len(printed)
         /\ lines[1] = printed[1]
         /\ \A j \in 2..Len(lines) :
              lines[j] = OwnerIndent(formatRuns[k], edit) \o IndentUnit \o printed[j]

(***************************************************************************)
(* Properties of refresh when something throws                             *)
(***************************************************************************)
FailedIds == {x.id : x \in failed}

\* the refresh of the call id ended in this step
Ended(id) == returned'.id = id /\ returned.id # id

\* C18: refresh never throws.  A call in which getOrCreateLanguageService,
\* the extractor, a writeSnapshot or a deleteSnapshot threw returns the empty
\* list; and a call in which nothing threw returns the fragments of its
\* file, each with its virtual document in the store, whatever failed in
\* the calls before it.
C18_FailureGivesEmptyList ==
  [][ /\ \A x \in failed' : ~x.threw
      /\ \A x \in failed' \ failed :
           x.stage # "extract" => Ended(x.id) /\ returned'.sqlNodes = <<>>
      /\ \A x \in failed :
           Ended(x.id) => returned'.sqlNodes = <<>>
      /\ (microtasks # <<>> /\ Ended(Head(microtasks).id)
            /\ Head(microtasks).id \notin FailedIds')
           => /\ returned'.sqlNodes
                   = WithVirtualDoc(
                       extractSqlListPy(Head(microtasks).rawContent, Undefined),
                       VFileNames(Head(microtasks).fileName,
                                  extractSqlListPy(Head(microtasks).rawContent,
                                                   Undefined)))
              /\ \A i \in 1..Len(returned'.sqlNodes) :
                   returned'.sqlNodes[i].vFileName \in DOMAIN snapshots' ]_vars

\* a writeSnapshot threw in a refresh of a.py after its first fragment was
\* stored, and a later refresh of b.py returned the fragment of b.py
C18_Witness ==
  /\ \E x \in failed :
       /\ x.fileName = "a.py" /\ x.stage = "write"
       /\ returned.id > x.id
  /\ "a.py" \notin DOMAIN virtualContents
  /\ VFileName("a.py", 0) \in DOMAIN snapshots
  /\ returned.fileName = "b.py"
  /\ returned.id \notin FailedIds
  /\ Len(returned.sqlNodes) = 1
  /\ returned.sqlNodes[1].content = <<"U">>


(***************************************************************************)
(* Properties of the providers                                             *)
(***************************************************************************)
\* C19: when the sqls client is not available or the delegated call fails,
\* the hover provider and the linked-editing provider give null and do not
\* throw; and however the start of the client went, activation registered
\* the providers.
C19_ProvidersGiveNull ==
  /\ provided.outcome # "throws"
  /\ client # "stopped" => {"hover", "linkedEditing"} \subseteq registrations

PythonFiles == {f \in Files : LanguageId(f) = "python"}

\* only blanks and line breaks
BlankOnly(s) == \A i \in 1..Len(s) : s[i] \in {" ", NL}

\* text is content put after start characters that are blanks or line breaks
Padded(text, start, content) ==
  /\ BlankOnly(Slice(text, 0, start))
  /\ Slice(text, start, Len(text)) = content

\* the two texts have their line breaks at the same places before start
SameLinesBefore(t, u, start) ==
  /\ start <= Len(t) /\ start <= Len(u)
  /\ \A i \in 1..start : (t[i] = NL) <=> (u[i] = NL)

\* the virtual documents of the fragment at place i of f, as stored by
\* refresh and by the providers, each with the fragment it belongs to
Stored(f, sqlNodes, i) ==
  {[text |-> snapshots[k], start |-> RangeStart(docText[f], sqlNodes[i]),
    content |-> sqlNodes[i].content, host |-> docText[f]] :
     k \in {VFileName(f, i - 1)} \cap DOMAIN snapshots}
  \cup
  {[text |-> virtualDocuments[k], start |-> RangeStart(docText[f], sqlNodes[i]),
    content |-> sqlNodes[i].content, host |-> docText[f]] :
     k \in {VFileName(f, i - 1) \o "_" \o ToString(i - 1)} \cap DOMAIN virtualDocuments}

AllStoredOf(f, sqlNodes) == UNION {Stored(f, sqlNodes, i) : i \in 1..Len(sqlNodes)}
AllStored == UNION {AllStoredOf(f, extractSqlListPy(docText[f], Undefined)) :
                      f \in PythonFiles}

\* C20: the text of a virtual document before its fragment holds nothing but
\* blanks and line breaks, so nothing of the host text outside the fragment
\* is in it; and two virtual documents made from host texts with the same
\* line lengths before the fragment and the same fragment are equal.
C20_OnlyLayoutOfHostLeaks ==
  /\ \A v \in AllStored : Padded(v.text, v.start, v.content)
  /\ \A v, w \in AllStored :
       (v.content = w.content /\ v.start = w.start
          /\ SameLinesBefore(v.host, w.host, v.start))
         => v.text = w.text

\* the second fragments of a.py and b.py, whose first lines differ in their
\* letters only, stored by refresh and by a provider with the same text
C20_Witness ==
  /\ docText["a.py"] = TextTwo /\ docText["b.py"] = TextTwoD
  /\ VFileName("a.py", 1) \in DOMAIN snapshots
  /\ VFileName("b.py", 1) \in DOMAIN snapshots
  /\ snapshots[VFileName("a.py", 1)] = snapshots[VFileName("b.py", 1)]
  /\ (VFileName("a.py", 1) \o "_1") \in DOMAIN virtualDocuments
  /\ virtualDocuments[VFileName("a.py", 1) \o "_1"] = snapshots[VFileName("b.py", 1)]

\* C23: a provider call that was superseded before its backend call settled
\* returns null, never the late result.
C23_StaleResultDropped ==
  \A k \in 1..Len(requests) :
    (requests[k].state = "returned" /\ requests[k].superseded)
      => requests[k].result = "null"

\* the refresh calls of f in which a writeSnapshot or deleteSnapshot threw
FailedPartway(f) ==
  {x \in failed : x.fileName = f /\ x.stage \in {"write", "delete"}}

\* C34: once a refresh of a host file has failed in the middle of its
\* writes or deletes, and no refresh of the file is suspended, the key list
\* stored for the file still holds exactly the keys of the file present in
\* the backing store, so that no virtual document is left that a later
\* refresh does not know of.
C34_KeysMatchStoreAfterFailure ==
  \A f \in Files :
    (LanguageId(f) = "python" /\ Pending(f) = {} /\ FailedPartway(f) # {})
    => StoreKeys(snapshots, f) = Range(LastVirtualFileNames(f))

\* the entries of virtualDocuments, which the content provider serves, that
\* the providers stored for the fragments of the host file f
Served(f) ==
  {k \in DOMAIN virtualDocuments :
     \E i \in 0..MaxFragments : k = VFileName(f, i) \o "_" \o ToString(i)}

\* C33: after a refresh the virtual documents served for its host file are
\* those of fragments the refresh found: none is left for a fragment index
\* the file no longer has.
C33_ServedBoundedByFragments ==
  returned.fileName # ""
    => Served(returned.fileName)
         \subseteq {UniqueVFileName(returned.sqlNodes[i]) :
                      i \in 1..Len(returned.sqlNodes)}

\* a style file format cannot be given options from, or whose options it
\* rejects
BadStyles == {"missing", "unreadable", "malformed", "rejected"}

\* C24: with a style file that is missing, unreadable or malformed, a format
\* run is not aborted and writes what the printer gives with its default
\* style.
C24_BadStyleNeverAborts ==
  \A k \in PythonRuns :
    formatRuns[k].style \in BadStyles =>
      /\ ~formatRuns[k].aborted
      /\ \A i \in 1..Len(formatRuns[k].edits) :
           formatRuns[k].edits[i].output
             = Format(printer, formatRuns[k].edits[i].content)

\* the rules are configured and the schema refuses them
InvalidRules ==
  /\ settings["customRawSqlQuery"].type = "object"
  /\ ~SafeParse("customRawSqlQuery", settings["customRawSqlQuery"]).success

\* the refresh calls made with the rules as they are set now
CallsWithRules ==
  {f \in Files : lastCall[f].id > 0 /\ LanguageId(f) = "python"
                 /\ lastCall[f].config = settings["customRawSqlQuery"]}

\* C25: while an invalid configuration of the rules stays in place its error
\* is logged and shown once, however many refreshes and reads there are, and
\* every refresh extracts with the default rules.
C25_InvalidRulesReportedOnce ==
  InvalidRules =>
    /\ reports <= 1
    /\ \A f \in CallsWithRules :
         lastCall[f].sqlNodes = extractSqlListPy(lastCall[f].rawContent, Undefined)

(***************************************************************************)
(* Properties of the scanner                                               *)
(***************************************************************************)
\* statement k has its lines to itself
OwnLines(prog, k) ==
  /\ (k = 1 \/ prog[k].sep = "newline")
  /\ (k = Len(prog) \/ prog[k + 1].sep = "newline")

\* what extractSqlFromLine collects from the first line of statement k
Collected(prog, k) ==
  CollectCall(SplitLines(ProgramText(prog)),
              PositionAt(ProgramText(prog), StatementStart(prog, k)).line,
              ScanInit, <<>>, <<0>>)

\* C26: for a well-formed call the collection stops with the call's closing
\* parenthesis: the text collected is the call's text, the depth is back at
\* zero and the scanner is in no string, also after a triple-quoted argument.
C26_StopsAtClosingParen ==
  extracted.done
  => \A k \in 1..Len(program) :
       ( /\ program[k].shape \in {"call1", "call2", "block", "blockCall"}
         /\ OwnLines(program, k) )
       => /\ Collected(program, k).closed
          /\ ~Collected(program, k).st.inString
          /\ Collected(program, k).fullLine = ShapeText(program[k].shape)

\* the scanner's state after the lines given, from the state st
RECURSIVE ScanText(_, _, _)
ScanText(st, lines, i) ==
  IF i > Len(lines) THEN st ELSE ScanText(ScanLine(st, lines[i], 0), lines, i + 1)

\* the scanner's state after the first n characters of a statement
ScannedTo(shape, n) == ScanText(ScanInit, SplitLines(Slice(ShapeText(shape), 0, n)), 1)

\* For the statements with a block or an escaped quote: after how many
\* characters the scanner is inside the literal (from the opening delimiter
\* to the last character before the closing one is complete), and after how
\* many it has left it.
Inside(shape) ==
  CASE shape = "block" -> 9..15
    [] shape = "blockQuote" -> 9..16
    [] shape = "escaped" -> 7..11
    [] OTHER -> {}
Outside(shape) ==
  CASE shape = "block" -> {16, 17}
    [] shape = "blockQuote" -> {17, 18}
    [] shape = "escaped" -> {12, 13}
    [] OTHER -> {}

\* C27: inside a triple-quoted block a lone quote does not end the in-string
\* state and the closing delimiter does; a quote after a backslash does not
\* close a string.
C27_OnlyDelimiterClosesBlock ==
  extracted.done
  => \A k \in 1..Len(program) :
       /\ \A n \in Inside(program[k].shape) : ScannedTo(program[k].shape, n).inString
       /\ \A n \in Outside(program[k].shape) : ~ScannedTo(program[k].shape, n).inString

(***************************************************************************)
(* Properties of the fragments                                             *)
(***************************************************************************)
\* the offset in the program's text at which a fragment's span ends
SpanEnd(prog, sqlNode) ==
  OffsetAt(ProgramText(prog), sqlNode.code_range.end.line,
           sqlNode.code_range.end.character)

\* where the first positional argument of a one-line call is in its text:
\* the offset of its first character and the offset after its last
FirstArgument(shape) ==
  CASE shape = "call1" -> [from |-> 6, to |-> 9]
    [] shape = "call2" -> [from |-> 7, to |-> 10]
    [] shape = "second" -> [from |-> 6, to |-> 7]

OneLineCalls == {"call1", "call2", "second"}

\* C28: the default rules name argument 1, so the fragment extracted from a
\* matching call lies inside the call's first argument; a literal in the
\* second argument is not returned.
C28_FragmentInsideNamedArgument ==
  (extracted.done
     /\ \A k \in 1..Len(program) : program[k].shape \in OneLineCalls \cup {"plain"})
  => \A k \in 1..Len(program) :
       program[k].shape \in OneLineCalls
       => \A i \in FragmentsOf(program, extracted.sqlNodes, k) :
            /\ SpanStart(program, extracted.sqlNodes[i])
                 >= StatementStart(program, k) + FirstArgument(program[k].shape).from
            /\ SpanEnd(program, extracted.sqlNodes[i])
                 <= StatementStart(program, k) + FirstArgument(program[k].shape).to

\* the position is one of the text: a line of it, and a column of that line
\* or the column after its last character
InText(text, position) ==
  /\ position.line >= 0
  /\ position.line < Len(SplitLines(text))
  /\ position.character >= 0
  /\ position.character <= Len(SplitLines(text)[position.line + 1])

\* C29: every fragment extraction returns has a span whose start is not
\* after its end, and both are positions of the host text.
C29_SpanOrderedInsideText ==
  extracted.done
  => \A i \in 1..Len(extracted.sqlNodes) :
       /\ PosLE(extracted.sqlNodes[i].code_range.start,
                extracted.sqlNodes[i].code_range.end)
       /\ InText(ProgramText(program), extracted.sqlNodes[i].code_range.start)
       /\ InText(ProgramText(program), extracted.sqlNodes[i].code_range.end)

\* a block after a one-line call was extracted: two fragments, the second
\* over three lines and ending on the last line of the text
C29_Witness ==
  /\ extracted.done
  /\ Len(program) = 2
  /\ program[1].shape = "call1"
  /\ program[2].shape = "block" /\ program[2].sep = "newline"
  /\ Len(extracted.sqlNodes) = 2
  /\ extracted.sqlNodes[2].code_range.start.line = 1
  /\ extracted.sqlNodes[2].code_range.end.line = 3

\* the position is inside the fragment's span, its ends included
Contains(sqlNode, position) ==
  /\ PosLE(sqlNode.code_range.start, position)
  /\ PosLE(position, sqlNode.code_range.end)

\* the fragments of the text a provider call was made on
FragmentsAt(request) == extractSqlListPy(request.text, Undefined)

\* C30: the fragment a provider selects for a position contains the
\* position, and no fragment is selected when none contains it.
C30_SelectedContainsPosition ==
  \A k \in 1..Len(requests) :
    IF requests[k].index = 0
    THEN \A i \in 1..Len(FragmentsAt(requests[k])) :
           ~Contains(FragmentsAt(requests[k])[i], requests[k].position)
    ELSE Contains(FragmentsAt(requests[k])[requests[k].index], requests[k].position)

=============================================================================
